---- MODULE Spec2Model ----
(***************************************************************************)
(* Configuration distribution core of jzcf-config: the per-tier payout     *)
(* tables (core/game_config.py GameConfigManager, and the module-level     *)
(* server_default_values of backend.py / lightweight_backend.py) and the   *)
(* WebSocket fan-out of the four server variants (web.py, backend.py,      *)
(* jzcf-web/web_v2.py, lightweight_backend.py).                            *)
(***************************************************************************)
EXTENDS Integers, Sequences, FiniteSets, TLC

----------------------------------------------------------------------------
(* JSON / Python values.  A value carries its Python type, so that int()   *)
(* and float() are conversions and not the identity.  A float holds its    *)
(* value in tenths (80.0 is FloatV(800), 72.5 is FloatV(725)).             *)

IntV(n) == [t |-> "int", v |-> n]
FloatV(tenths) == [t |-> "float", v |-> tenths]
TextV == [t |-> "text", v |-> 0]
NullV == [t |-> "null", v |-> 0]
\* 1e400 (or Infinity) in a JSON body: json.loads makes it the float inf.
InfV == [t |-> "inf", v |-> 1000000000]

\* Division truncating toward zero, as Python's int() truncates a float.
Trunc(n, d) == IF n >= 0 THEN n \div d ELSE -((-n) \div d)

\* int(x) and float(x) return for a finite number; a non-numeric string
\* raises ValueError and None raises TypeError.  float(inf) returns inf,
\* int(inf) raises OverflowError.
Converts(x) == x.t \in {"int", "float"}
ConvertsFloat(x) == Converts(x) \/ x.t = "inf"
RaisedBy(x) ==
    IF x.t = "text" THEN "ValueError"
    ELSE IF x.t = "inf" THEN "OverflowError" ELSE "TypeError"
PyInt(x) == IF x.t = "float" THEN Trunc(x.v, 10) ELSE x.v
PyFloat(x) == IF x.t = "int" THEN FloatV(x.v * 10) ELSE x
\* The numeric value of a stored number, in tenths, for comparisons.
Tenths(x) == IF x.t = "int" THEN x.v * 10 ELSE x.v

Range(s) == {s[i] : i \in DOMAIN s}

RECURSIVE SumOver(_, _, _)
\* sum(d[f] for f in fields[i..])
SumOver(d, fields, i) ==
    IF i > Len(fields) THEN 0 ELSE d[fields[i]] + SumOver(d, fields, i + 1)

\* sum(d.values()) of a dict whose keys are the given field list
SumValues(d, fields) == SumOver(d, fields, 1)

----------------------------------------------------------------------------
(* Field names.  The source's keys are Chinese; the model writes them as:   *)
(*   比倍难度 double_difficulty     吃分最大值 eat_max     吃分最小值 eat_min  *)
(*   吃分返奖率 return_rate         营业返奖率 business_return_rate            *)
(*   吃分最大값 eat_max_hangul      吃分最小값 eat_min_hangul                  *)
(*   (the two keys of lightweight_backend.py's default_data, which end in  *)
(*   a Hangul syllable and so are not the keys the code reads)             *)
(*   三倍小奖 triple_small   苹果 apple        橘子 orange     柠檬 lemon       *)
(*   金钟 bell              西瓜 watermelon   双星 double_star  99 "99"        *)
(*   小bar small_bar        中bar mid_bar     大bar big_bar                  *)
(*   金猪奖 golden_pig      小猫变身 kitten    双响炮 double_cannon            *)
(*   大四喜 big_four        小三元 small_three 大三元 big_three                *)
(*   彩金 jackpot           开火车 train       统统有奖 all_win                *)
(*   大满贯 grand_slam      仙女散花 fairy                                    *)
(* The tier label prefix 难度 is kept as it is.                             *)

\* The five scalar parameters, in the order update_config reads them.
base_fields == <<"double_difficulty", "eat_max", "eat_min", "return_rate", "business_return_rate">>

\* GameConfigManager.PRIZE_MULTIPLIERS keys (= backend.py prize_fields).
prize_fields ==
    <<"triple_small", "apple", "orange", "lemon", "bell", "watermelon", "double_star", "99",
      "small_bar", "mid_bar", "big_bar", "golden_pig">>

\* GameConfigManager.BONUS_MULTIPLIERS keys, in their order.
BONUS_MULTIPLIERS_keys ==
    <<"kitten", "double_cannon", "big_four", "small_three", "big_three", "jackpot", "train",
      "all_win", "grand_slam", "fairy">>

\* backend.py / lightweight_backend.py bonus_fields (kitten last).
bonus_fields ==
    <<"double_cannon", "big_four", "small_three", "big_three", "jackpot", "train", "all_win",
      "grand_slam", "fairy", "kitten">>

all_fields == base_fields \o prize_fields \o bonus_fields

Tiers == 1..9

----------------------------------------------------------------------------
(* Built-in default tables *)

\* GameConfigManager._create_optimized_config: base_params
base_params ==
       1 :> ("double" :> 20 @@ "eat_max" :> 2000 @@ "eat_min" :> 300 @@ "return" :> 80
            @@ "business" :> 83)
    @@ 2 :> ("double" :> 25 @@ "eat_max" :> 2400 @@ "eat_min" :> 400 @@ "return" :> 75
            @@ "business" :> 78)
    @@ 3 :> ("double" :> 30 @@ "eat_max" :> 2800 @@ "eat_min" :> 500 @@ "return" :> 70
            @@ "business" :> 73)
    @@ 4 :> ("double" :> 35 @@ "eat_max" :> 3200 @@ "eat_min" :> 600 @@ "return" :> 65
            @@ "business" :> 68)
    @@ 5 :> ("double" :> 40 @@ "eat_max" :> 3600 @@ "eat_min" :> 700 @@ "return" :> 60
            @@ "business" :> 63)
    @@ 6 :> ("double" :> 45 @@ "eat_max" :> 4000 @@ "eat_min" :> 800 @@ "return" :> 55
            @@ "business" :> 58)
    @@ 7 :> ("double" :> 50 @@ "eat_max" :> 4400 @@ "eat_min" :> 900 @@ "return" :> 50
            @@ "business" :> 53)
    @@ 8 :> ("double" :> 55 @@ "eat_max" :> 4800 @@ "eat_min" :> 1000 @@ "return" :> 45
            @@ "business" :> 48)
    @@ 9 :> ("double" :> 60 @@ "eat_max" :> 5200 @@ "eat_min" :> 1100 @@ "return" :> 40
            @@ "business" :> 43)

\* GameConfigManager._calculate_prize_distribution: base_distributions
prize_base_distributions ==
       1 :> ("triple_small" :> 5150 @@ "apple" :> 900 @@ "orange" :> 700 @@ "lemon" :> 600 @@ "bell" :> 500
            @@ "watermelon" :> 500 @@ "double_star" :> 400 @@ "99" :> 350 @@ "small_bar" :> 250 @@ "mid_bar" :> 200
            @@ "big_bar" :> 150 @@ "golden_pig" :> 300)
    @@ 2 :> ("triple_small" :> 5120 @@ "apple" :> 900 @@ "orange" :> 700 @@ "lemon" :> 600 @@ "bell" :> 500
            @@ "watermelon" :> 500 @@ "double_star" :> 400 @@ "99" :> 350 @@ "small_bar" :> 250 @@ "mid_bar" :> 200
            @@ "big_bar" :> 150 @@ "golden_pig" :> 330)
    @@ 3 :> ("triple_small" :> 5090 @@ "apple" :> 900 @@ "orange" :> 700 @@ "lemon" :> 600 @@ "bell" :> 500
            @@ "watermelon" :> 500 @@ "double_star" :> 400 @@ "99" :> 350 @@ "small_bar" :> 250 @@ "mid_bar" :> 200
            @@ "big_bar" :> 150 @@ "golden_pig" :> 360)
    @@ 4 :> ("triple_small" :> 5060 @@ "apple" :> 900 @@ "orange" :> 700 @@ "lemon" :> 600 @@ "bell" :> 500
            @@ "watermelon" :> 500 @@ "double_star" :> 400 @@ "99" :> 350 @@ "small_bar" :> 250 @@ "mid_bar" :> 200
            @@ "big_bar" :> 150 @@ "golden_pig" :> 390)
    @@ 5 :> ("triple_small" :> 5030 @@ "apple" :> 900 @@ "orange" :> 700 @@ "lemon" :> 600 @@ "bell" :> 500
            @@ "watermelon" :> 500 @@ "double_star" :> 400 @@ "99" :> 350 @@ "small_bar" :> 250 @@ "mid_bar" :> 200
            @@ "big_bar" :> 150 @@ "golden_pig" :> 420)
    @@ 6 :> ("triple_small" :> 5000 @@ "apple" :> 900 @@ "orange" :> 700 @@ "lemon" :> 600 @@ "bell" :> 500
            @@ "watermelon" :> 500 @@ "double_star" :> 400 @@ "99" :> 350 @@ "small_bar" :> 250 @@ "mid_bar" :> 200
            @@ "big_bar" :> 150 @@ "golden_pig" :> 450)
    @@ 7 :> ("triple_small" :> 4900 @@ "apple" :> 900 @@ "orange" :> 700 @@ "lemon" :> 600 @@ "bell" :> 500
            @@ "watermelon" :> 500 @@ "double_star" :> 400 @@ "99" :> 350 @@ "small_bar" :> 250 @@ "mid_bar" :> 200
            @@ "big_bar" :> 150 @@ "golden_pig" :> 550)
    @@ 8 :> ("triple_small" :> 4800 @@ "apple" :> 900 @@ "orange" :> 700 @@ "lemon" :> 600 @@ "bell" :> 500
            @@ "watermelon" :> 500 @@ "double_star" :> 400 @@ "99" :> 350 @@ "small_bar" :> 250 @@ "mid_bar" :> 200
            @@ "big_bar" :> 150 @@ "golden_pig" :> 650)
    @@ 9 :> ("triple_small" :> 4700 @@ "apple" :> 900 @@ "orange" :> 700 @@ "lemon" :> 600 @@ "bell" :> 500
            @@ "watermelon" :> 500 @@ "double_star" :> 400 @@ "99" :> 350 @@ "small_bar" :> 250 @@ "mid_bar" :> 200
            @@ "big_bar" :> 150 @@ "golden_pig" :> 750)

\* GameConfigManager._calculate_bonus_distribution: base_distributions
bonus_base_distributions ==
       1 :> ("kitten" :> 2600 @@ "double_cannon" :> 1100 @@ "big_four" :> 1000 @@ "small_three" :> 900 @@ "big_three" :> 800
            @@ "jackpot" :> 700 @@ "train" :> 600 @@ "all_win" :> 500 @@ "grand_slam" :> 400 @@ "fairy" :> 400)
    @@ 2 :> ("kitten" :> 2500 @@ "double_cannon" :> 1050 @@ "big_four" :> 950 @@ "small_three" :> 850 @@ "big_three" :> 750
            @@ "jackpot" :> 650 @@ "train" :> 550 @@ "all_win" :> 450 @@ "grand_slam" :> 350 @@ "fairy" :> 350)
    @@ 3 :> ("kitten" :> 2400 @@ "double_cannon" :> 1000 @@ "big_four" :> 900 @@ "small_three" :> 800 @@ "big_three" :> 700
            @@ "jackpot" :> 600 @@ "train" :> 500 @@ "all_win" :> 400 @@ "grand_slam" :> 300 @@ "fairy" :> 300)
    @@ 4 :> ("kitten" :> 2300 @@ "double_cannon" :> 950 @@ "big_four" :> 850 @@ "small_three" :> 750 @@ "big_three" :> 650
            @@ "jackpot" :> 550 @@ "train" :> 450 @@ "all_win" :> 350 @@ "grand_slam" :> 250 @@ "fairy" :> 250)
    @@ 5 :> ("kitten" :> 3200 @@ "double_cannon" :> 1200 @@ "big_four" :> 1100 @@ "small_three" :> 1000 @@ "big_three" :> 900
            @@ "jackpot" :> 800 @@ "train" :> 700 @@ "all_win" :> 600 @@ "grand_slam" :> 300 @@ "fairy" :> 200)
    @@ 6 :> ("kitten" :> 3000 @@ "double_cannon" :> 1150 @@ "big_four" :> 1050 @@ "small_three" :> 950 @@ "big_three" :> 850
            @@ "jackpot" :> 750 @@ "train" :> 650 @@ "all_win" :> 550 @@ "grand_slam" :> 250 @@ "fairy" :> 150)
    @@ 7 :> ("kitten" :> 2800 @@ "double_cannon" :> 1100 @@ "big_four" :> 1000 @@ "small_three" :> 900 @@ "big_three" :> 800
            @@ "jackpot" :> 700 @@ "train" :> 600 @@ "all_win" :> 500 @@ "grand_slam" :> 200 @@ "fairy" :> 100)
    @@ 8 :> ("kitten" :> 2600 @@ "double_cannon" :> 1050 @@ "big_four" :> 950 @@ "small_three" :> 850 @@ "big_three" :> 750
            @@ "jackpot" :> 650 @@ "train" :> 550 @@ "all_win" :> 450 @@ "grand_slam" :> 150 @@ "fairy" :> 50)
    @@ 9 :> ("kitten" :> 3000 @@ "double_cannon" :> 1200 @@ "big_four" :> 1100 @@ "small_three" :> 1000 @@ "big_three" :> 900
            @@ "jackpot" :> 800 @@ "train" :> 700 @@ "all_win" :> 600 @@ "grand_slam" :> 300 @@ "fairy" :> 200)

\* backend.py init_server_default_values: default_data
backend_default_data ==
       1 :> ("double_difficulty" :> 20 @@ "eat_max" :> 2000 @@ "eat_min" :> 300 @@ "return_rate" :> 80
            @@ "business_return_rate" :> 83)
    @@ 2 :> ("double_difficulty" :> 25 @@ "eat_max" :> 2400 @@ "eat_min" :> 400 @@ "return_rate" :> 75
            @@ "business_return_rate" :> 78)
    @@ 3 :> ("double_difficulty" :> 30 @@ "eat_max" :> 2800 @@ "eat_min" :> 500 @@ "return_rate" :> 70
            @@ "business_return_rate" :> 73)
    @@ 4 :> ("double_difficulty" :> 35 @@ "eat_max" :> 3200 @@ "eat_min" :> 600 @@ "return_rate" :> 65
            @@ "business_return_rate" :> 68)
    @@ 5 :> ("double_difficulty" :> 40 @@ "eat_max" :> 3600 @@ "eat_min" :> 700 @@ "return_rate" :> 60
            @@ "business_return_rate" :> 63)
    @@ 6 :> ("double_difficulty" :> 45 @@ "eat_max" :> 4000 @@ "eat_min" :> 800 @@ "return_rate" :> 55
            @@ "business_return_rate" :> 58)
    @@ 7 :> ("double_difficulty" :> 50 @@ "eat_max" :> 4400 @@ "eat_min" :> 900 @@ "return_rate" :> 50
            @@ "business_return_rate" :> 53)
    @@ 8 :> ("double_difficulty" :> 55 @@ "eat_max" :> 4800 @@ "eat_min" :> 1000 @@ "return_rate" :> 45
            @@ "business_return_rate" :> 48)
    @@ 9 :> ("double_difficulty" :> 60 @@ "eat_max" :> 5200 @@ "eat_min" :> 1100 @@ "return_rate" :> 40
            @@ "business_return_rate" :> 43)

\* backend.py init_server_default_values: prize_distributions
backend_prize_distributions ==
       1 :> ("triple_small" :> 6300 @@ "apple" :> 800 @@ "orange" :> 600 @@ "lemon" :> 460 @@ "bell" :> 370
            @@ "watermelon" :> 370 @@ "double_star" :> 320 @@ "99" :> 260 @@ "small_bar" :> 185 @@ "mid_bar" :> 140
            @@ "big_bar" :> 95 @@ "golden_pig" :> 100)
    @@ 2 :> ("triple_small" :> 6200 @@ "apple" :> 850 @@ "orange" :> 650 @@ "lemon" :> 510 @@ "bell" :> 420
            @@ "watermelon" :> 420 @@ "double_star" :> 350 @@ "99" :> 280 @@ "small_bar" :> 205 @@ "mid_bar" :> 155
            @@ "big_bar" :> 100 @@ "golden_pig" :> 100)
    @@ 3 :> ("triple_small" :> 6100 @@ "apple" :> 900 @@ "orange" :> 700 @@ "lemon" :> 560 @@ "bell" :> 470
            @@ "watermelon" :> 470 @@ "double_star" :> 380 @@ "99" :> 300 @@ "small_bar" :> 225 @@ "mid_bar" :> 170
            @@ "big_bar" :> 110 @@ "golden_pig" :> 100)
    @@ 4 :> ("triple_small" :> 6000 @@ "apple" :> 950 @@ "orange" :> 750 @@ "lemon" :> 610 @@ "bell" :> 520
            @@ "watermelon" :> 520 @@ "double_star" :> 410 @@ "99" :> 320 @@ "small_bar" :> 245 @@ "mid_bar" :> 185
            @@ "big_bar" :> 120 @@ "golden_pig" :> 100)
    @@ 5 :> ("triple_small" :> 5400 @@ "apple" :> 920 @@ "orange" :> 730 @@ "lemon" :> 600 @@ "bell" :> 520
            @@ "watermelon" :> 520 @@ "double_star" :> 400 @@ "99" :> 310 @@ "small_bar" :> 240 @@ "mid_bar" :> 180
            @@ "big_bar" :> 120 @@ "golden_pig" :> 80)
    @@ 6 :> ("triple_small" :> 5350 @@ "apple" :> 960 @@ "orange" :> 780 @@ "lemon" :> 650 @@ "bell" :> 570
            @@ "watermelon" :> 570 @@ "double_star" :> 430 @@ "99" :> 330 @@ "small_bar" :> 260 @@ "mid_bar" :> 195
            @@ "big_bar" :> 130 @@ "golden_pig" :> 85)
    @@ 7 :> ("triple_small" :> 5300 @@ "apple" :> 1000 @@ "orange" :> 830 @@ "lemon" :> 700 @@ "bell" :> 620
            @@ "watermelon" :> 620 @@ "double_star" :> 460 @@ "99" :> 350 @@ "small_bar" :> 280 @@ "mid_bar" :> 210
            @@ "big_bar" :> 140 @@ "golden_pig" :> 90)
    @@ 8 :> ("triple_small" :> 5250 @@ "apple" :> 1050 @@ "orange" :> 880 @@ "lemon" :> 750 @@ "bell" :> 670
            @@ "watermelon" :> 670 @@ "double_star" :> 490 @@ "99" :> 370 @@ "small_bar" :> 300 @@ "mid_bar" :> 225
            @@ "big_bar" :> 150 @@ "golden_pig" :> 95)
    @@ 9 :> ("triple_small" :> 4700 @@ "apple" :> 1000 @@ "orange" :> 850 @@ "lemon" :> 730 @@ "bell" :> 650
            @@ "watermelon" :> 650 @@ "double_star" :> 470 @@ "99" :> 350 @@ "small_bar" :> 290 @@ "mid_bar" :> 220
            @@ "big_bar" :> 150 @@ "golden_pig" :> 90)

\* backend.py init_server_default_values: bonus_distributions
backend_bonus_distributions ==
       1 :> ("kitten" :> 2600 @@ "double_cannon" :> 1100 @@ "big_four" :> 1000 @@ "small_three" :> 900 @@ "big_three" :> 800
            @@ "jackpot" :> 700 @@ "train" :> 600 @@ "all_win" :> 500 @@ "grand_slam" :> 400 @@ "fairy" :> 400)
    @@ 2 :> ("kitten" :> 2500 @@ "double_cannon" :> 1050 @@ "big_four" :> 950 @@ "small_three" :> 850 @@ "big_three" :> 750
            @@ "jackpot" :> 650 @@ "train" :> 550 @@ "all_win" :> 450 @@ "grand_slam" :> 350 @@ "fairy" :> 350)
    @@ 3 :> ("kitten" :> 2400 @@ "double_cannon" :> 1000 @@ "big_four" :> 900 @@ "small_three" :> 800 @@ "big_three" :> 700
            @@ "jackpot" :> 600 @@ "train" :> 500 @@ "all_win" :> 400 @@ "grand_slam" :> 300 @@ "fairy" :> 300)
    @@ 4 :> ("kitten" :> 2300 @@ "double_cannon" :> 950 @@ "big_four" :> 850 @@ "small_three" :> 750 @@ "big_three" :> 650
            @@ "jackpot" :> 550 @@ "train" :> 450 @@ "all_win" :> 350 @@ "grand_slam" :> 250 @@ "fairy" :> 250)
    @@ 5 :> ("kitten" :> 3200 @@ "double_cannon" :> 1200 @@ "big_four" :> 1100 @@ "small_three" :> 1000 @@ "big_three" :> 900
            @@ "jackpot" :> 800 @@ "train" :> 700 @@ "all_win" :> 600 @@ "grand_slam" :> 300 @@ "fairy" :> 200)
    @@ 6 :> ("kitten" :> 3000 @@ "double_cannon" :> 1150 @@ "big_four" :> 1050 @@ "small_three" :> 950 @@ "big_three" :> 850
            @@ "jackpot" :> 750 @@ "train" :> 650 @@ "all_win" :> 550 @@ "grand_slam" :> 250 @@ "fairy" :> 150)
    @@ 7 :> ("kitten" :> 2800 @@ "double_cannon" :> 1100 @@ "big_four" :> 1000 @@ "small_three" :> 900 @@ "big_three" :> 800
            @@ "jackpot" :> 700 @@ "train" :> 600 @@ "all_win" :> 500 @@ "grand_slam" :> 200 @@ "fairy" :> 100)
    @@ 8 :> ("kitten" :> 2600 @@ "double_cannon" :> 1050 @@ "big_four" :> 950 @@ "small_three" :> 850 @@ "big_three" :> 750
            @@ "jackpot" :> 650 @@ "train" :> 550 @@ "all_win" :> 450 @@ "grand_slam" :> 150 @@ "fairy" :> 50)
    @@ 9 :> ("kitten" :> 3000 @@ "double_cannon" :> 1200 @@ "big_four" :> 1100 @@ "small_three" :> 1000 @@ "big_three" :> 900
            @@ "jackpot" :> 800 @@ "train" :> 700 @@ "all_win" :> 600 @@ "grand_slam" :> 300 @@ "fairy" :> 200)

\* lightweight_backend.py init_server_default_values: default_data (its bound keys end in the Hangul syllable, as in the source)
lightweight_default_data ==
       1 :> ("double_difficulty" :> 20 @@ "eat_max_hangul" :> 2000 @@ "eat_min_hangul" :> 300 @@ "return_rate" :> 80
            @@ "business_return_rate" :> 83)
    @@ 2 :> ("double_difficulty" :> 25 @@ "eat_max_hangul" :> 2400 @@ "eat_min_hangul" :> 400 @@ "return_rate" :> 75
            @@ "business_return_rate" :> 78)
    @@ 3 :> ("double_difficulty" :> 30 @@ "eat_max_hangul" :> 2800 @@ "eat_min_hangul" :> 500 @@ "return_rate" :> 70
            @@ "business_return_rate" :> 73)
    @@ 4 :> ("double_difficulty" :> 35 @@ "eat_max_hangul" :> 3200 @@ "eat_min_hangul" :> 600 @@ "return_rate" :> 65
            @@ "business_return_rate" :> 68)
    @@ 5 :> ("double_difficulty" :> 40 @@ "eat_max_hangul" :> 3600 @@ "eat_min_hangul" :> 700 @@ "return_rate" :> 60
            @@ "business_return_rate" :> 63)
    @@ 6 :> ("double_difficulty" :> 45 @@ "eat_max_hangul" :> 4000 @@ "eat_min_hangul" :> 800 @@ "return_rate" :> 55
            @@ "business_return_rate" :> 58)
    @@ 7 :> ("double_difficulty" :> 50 @@ "eat_max_hangul" :> 4400 @@ "eat_min_hangul" :> 900 @@ "return_rate" :> 50
            @@ "business_return_rate" :> 53)
    @@ 8 :> ("double_difficulty" :> 55 @@ "eat_max_hangul" :> 4800 @@ "eat_min_hangul" :> 1000 @@ "return_rate" :> 45
            @@ "business_return_rate" :> 48)
    @@ 9 :> ("double_difficulty" :> 60 @@ "eat_max_hangul" :> 5200 @@ "eat_min_hangul" :> 1100 @@ "return_rate" :> 40
            @@ "business_return_rate" :> 43)

\* lightweight_backend.py init_server_default_values: prize_distributions (tiers 1, 5, 9 only)
lightweight_prize_distributions ==
       1 :> ("triple_small" :> 6300 @@ "apple" :> 800 @@ "orange" :> 600 @@ "lemon" :> 460 @@ "bell" :> 370
            @@ "watermelon" :> 370 @@ "double_star" :> 320 @@ "99" :> 260 @@ "small_bar" :> 185 @@ "mid_bar" :> 140
            @@ "big_bar" :> 95 @@ "golden_pig" :> 100)
    @@ 5 :> ("triple_small" :> 5400 @@ "apple" :> 920 @@ "orange" :> 730 @@ "lemon" :> 600 @@ "bell" :> 520
            @@ "watermelon" :> 520 @@ "double_star" :> 400 @@ "99" :> 310 @@ "small_bar" :> 240 @@ "mid_bar" :> 180
            @@ "big_bar" :> 120 @@ "golden_pig" :> 80)
    @@ 9 :> ("triple_small" :> 4700 @@ "apple" :> 1000 @@ "orange" :> 850 @@ "lemon" :> 730 @@ "bell" :> 650
            @@ "watermelon" :> 650 @@ "double_star" :> 470 @@ "99" :> 350 @@ "small_bar" :> 290 @@ "mid_bar" :> 220
            @@ "big_bar" :> 150 @@ "golden_pig" :> 90)

\* lightweight_backend.py init_server_default_values: bonus_distributions (tiers 1, 5, 9 only)
lightweight_bonus_distributions ==
       1 :> ("kitten" :> 2600 @@ "double_cannon" :> 1100 @@ "big_four" :> 1000 @@ "small_three" :> 900 @@ "big_three" :> 800
            @@ "jackpot" :> 700 @@ "train" :> 600 @@ "all_win" :> 500 @@ "grand_slam" :> 400 @@ "fairy" :> 400)
    @@ 5 :> ("kitten" :> 3200 @@ "double_cannon" :> 1200 @@ "big_four" :> 1100 @@ "small_three" :> 1000 @@ "big_three" :> 900
            @@ "jackpot" :> 800 @@ "train" :> 700 @@ "all_win" :> 600 @@ "grand_slam" :> 300 @@ "fairy" :> 200)
    @@ 9 :> ("kitten" :> 3000 @@ "double_cannon" :> 1200 @@ "big_four" :> 1100 @@ "small_three" :> 1000 @@ "big_three" :> 900
            @@ "jackpot" :> 800 @@ "train" :> 700 @@ "all_win" :> 600 @@ "grand_slam" :> 300 @@ "fairy" :> 200)

----------------------------------------------------------------------------
(* core/game_config.py: GameConfigManager *)

\* _calculate_prize_distribution from `dist = ...copy()` on: the correction
\* of a base distribution to total 10000.
_calculate_prize_distribution_correct(dist0) ==
    LET total == SumValues(dist0, prize_fields)
        diff == 10000 - total
        Max0(n) == IF n > 0 THEN n ELSE 0
        dist1 == IF total = 10000 THEN dist0
                 ELSE IF diff < 0
                      THEN [dist0 EXCEPT !["triple_small"] = Max0(@ + diff)]
                      ELSE [dist0 EXCEPT !["golden_pig"] = @ + diff]
        dist2 == IF dist1["golden_pig"] < 0
                 THEN [dist1 EXCEPT !["triple_small"] = Max0(@ + dist1["golden_pig"]),
                                    !["golden_pig"] = 0]
                 ELSE dist1
        final_total == SumValues(dist2, prize_fields)
    IN  IF final_total # 10000
        THEN [dist2 EXCEPT !["triple_small"] = @ + (10000 - final_total)]
        ELSE dist2

\* _calculate_prize_distribution: the base table, corrected to total 10000.
_calculate_prize_distribution(difficulty) ==
    _calculate_prize_distribution_correct(prize_base_distributions[difficulty])

\* _calculate_bonus_distribution: the residual goes to kitten.
_calculate_bonus_distribution(difficulty) ==
    LET dist == bonus_base_distributions[difficulty]
        total == SumValues(dist, BONUS_MULTIPLIERS_keys)
    IN  IF total # 10000
        THEN [dist EXCEPT !["kitten"] = @ + (10000 - total)]
        ELSE dist

\* _create_optimized_config: the DifficultyConfig of one tier.  The two
\* rates are stored as the ints of base_params.
_create_optimized_config(difficulty) ==
    LET params == base_params[difficulty]
    IN  [difficulty |-> difficulty,
         double_difficulty |-> params["double"],
         eat_max |-> params["eat_max"],
         eat_min |-> params["eat_min"],
         return_rate |-> IntV(params["return"]),
         business_return_rate |-> IntV(params["business"]),
         prize_distribution |-> _calculate_prize_distribution(difficulty),
         bonus_distribution |-> _calculate_bonus_distribution(difficulty)]

\* __init__ / _initialize_default_configs
_initialize_default_configs ==
    [difficulty \in Tiers |-> _create_optimized_config(difficulty)]

\* _validate_config
_validate_config(config) ==
    /\ SumValues(config.prize_distribution, prize_fields) = 10000
    /\ SumValues(config.bonus_distribution, BONUS_MULTIPLIERS_keys) = 10000
    /\ 0 <= config.double_difficulty /\ config.double_difficulty <= 100
    /\ ~(config.eat_min >= config.eat_max)
    /\ 0 <= Tenths(config.return_rate) /\ Tenths(config.return_rate) <= 1000

\* A validator that repairs what it finds: it clamps the first attribute.
_validate_config_leaves_clamped(config) ==
    [config EXCEPT !.double_difficulty = IF @ > 25 THEN 25 ELSE @]

\* The config object after _validate_config(config) has run: the method
\* reads attributes and assigns none.
_validate_config_leaves(config) == config

\* app_simulator.py AppSimulator.validate_config(difficulty_key, config) on a
\* received tier (field -> value): the findings it returns.  Every read is
\* config.get(field, 0).
validate_config(config) ==
    LET get(f) == IF f \in DOMAIN config THEN Tenths(config[f]) ELSE 0
        weights == Range(prize_fields) \cup Range(bonus_fields)
        prize_total == SumValues([f \in Range(prize_fields) |-> get(f) \div 10],
                                 prize_fields)
        bonus_total == SumValues([f \in Range(bonus_fields) |-> get(f) \div 10],
                                 bonus_fields)
        issue(found, name) == IF found THEN {name} ELSE {}
        issues ==
            issue(prize_total # 10000, "prize_total")
            \cup issue(bonus_total # 10000, "bonus_total")
            \cup {f \in weights : get(f) < 0}
            \cup issue(get("eat_min") >= get("eat_max"), "eat_min")
            \cup issue(~(0 <= get("double_difficulty")
                         /\ get("double_difficulty") <= 1000), "double_difficulty")
            \cup issue(~(0 <= get("return_rate")
                         /\ get("return_rate") <= 1000), "return_rate")
    IN  [valid |-> issues = {},
         issues |-> issues,
         warnings |-> {f \in weights \ {"golden_pig"} : get(f) = 0},
         prize_total |-> prize_total,
         bonus_total |-> bonus_total]

\* The dict after AppSimulator.validate_config(difficulty_key, config) has
\* run: the method only calls config.get.
validate_config_leaves(config) == config

\* The order in which update_config reads the fields of config_data.
update_order == base_fields \o prize_fields \o BONUS_MULTIPLIERS_keys

\* An assignment that always lands on the first attribute.
SetField_first(config, field, value) ==
    [config EXCEPT !.double_difficulty = PyInt(value)]

\* One assignment of update_config: config.<attribute> = int(...) / float(...)
SetField(config, field, value) ==
    CASE field = "double_difficulty" -> [config EXCEPT !.double_difficulty = PyInt(value)]
      [] field = "eat_max" -> [config EXCEPT !.eat_max = PyInt(value)]
      [] field = "eat_min" -> [config EXCEPT !.eat_min = PyInt(value)]
      [] field = "return_rate" -> [config EXCEPT !.return_rate = PyFloat(value)]
      [] field = "business_return_rate" ->
            [config EXCEPT !.business_return_rate = PyFloat(value)]
      [] field \in Range(prize_fields) ->
            [config EXCEPT !.prize_distribution[field] = PyInt(value)]
      [] OTHER ->
            [config EXCEPT !.bonus_distribution[field] = PyInt(value)]

RECURSIVE MergeFields(_, _, _)
\* The field-by-field merge of update_config from position i of
\* update_order on: the config object is mutated in place, so a conversion
\* that raises leaves the assignments made before it.
MergeFields(config, config_data, i) ==
    IF i > Len(update_order) THEN [config |-> config, raised |-> "none"]
    ELSE LET field == update_order[i] IN
         IF field \notin DOMAIN config_data
         THEN MergeFields(config, config_data, i + 1)
         ELSE IF ~(IF field \in {"return_rate", "business_return_rate"}
                   THEN ConvertsFloat(config_data[field])
                   ELSE Converts(config_data[field]))
         THEN [config |-> config, raised |-> RaisedBy(config_data[field])]
         ELSE MergeFields(SetField(config, field, config_data[field]),
                          config_data, i + 1)

\* A request's per-tier datum: a JSON object (kind "map", m its members), or
\* a JSON number/null (kind "scalar": `field in config_data` raises
\* TypeError), or a JSON string/array holding no field name (kind "plain":
\* every `field in config_data` is False).
MapData(m) == [kind |-> "map", m |-> m]
ScalarData == [kind |-> "scalar", m |-> <<>>]
PlainData == [kind |-> "plain", m |-> <<>>]

\* An update_config that clamps the tier number into 1..9 instead of
\* refusing one outside it.
update_config_clamped(configs, difficulty, config_data) ==
    LET d == IF difficulty < 1 THEN 1 ELSE IF difficulty > 9 THEN 9 ELSE difficulty
        merged == MergeFields(configs[d],
                              IF config_data.kind = "map"
                              THEN config_data.m ELSE <<>>, 1)
    IN  [configs |-> [configs EXCEPT ![d] = merged.config],
         ret |-> IF merged.raised # "none" THEN merged.raised
                 ELSE IF _validate_config(merged.config) THEN "True" ELSE "False"]

\* update_config(difficulty, config_data): the new _configs and what the
\* call returned ("True", "False") or raised.
update_config(configs, difficulty, config_data) ==
    IF difficulty \notin Tiers THEN [configs |-> configs, ret |-> "False"]
    ELSE IF config_data.kind = "scalar"
    THEN [configs |-> configs, ret |-> "TypeError"]
    ELSE LET merged == MergeFields(configs[difficulty],
                                   IF config_data.kind = "map"
                                   THEN config_data.m ELSE <<>>, 1)
             configs2 == [configs EXCEPT ![difficulty] = merged.config]
         IN  IF merged.raised # "none"
             THEN [configs |-> configs2, ret |-> merged.raised]
             ELSE [configs |-> configs2,
                   ret |-> IF _validate_config(merged.config)
                           THEN "True" ELSE "False"]

\* to_dict(difficulty): the tier as the API serializes it.
to_dict(configs, difficulty) ==
    LET config == configs[difficulty] IN
    [field \in Range(all_fields) |->
        CASE field = "double_difficulty" -> IntV(config.double_difficulty)
          [] field = "eat_max" -> IntV(config.eat_max)
          [] field = "eat_min" -> IntV(config.eat_min)
          [] field = "return_rate" -> config.return_rate
          [] field = "business_return_rate" -> config.business_return_rate
          [] field \in Range(prize_fields) ->
                IntV(config.prize_distribution[field])
          [] OTHER -> IntV(config.bonus_distribution[field])]

\* The label of a tier in a snapshot: f"难度{difficulty}"
TierLabel(difficulty) == "难度" \o ToString(difficulty)

\* to_dict_all()
to_dict_all(configs) ==
    [label \in {TierLabel(d) : d \in Tiers} |->
        to_dict(configs, CHOOSE d \in Tiers : TierLabel(d) = label)]

----------------------------------------------------------------------------
(* The /send request body: a JSON object, i.e. a dict in document order,   *)
(* modelled as a sequence of [key, data] entries with distinct keys.       *)

Digits == <<"0", "1", "2", "3", "4", "5", "6", "7", "8", "9">>

DigitValue(c) == (CHOOSE i \in DOMAIN Digits : Digits[i] = c) - 1

IsDigits(s) ==
    /\ Len(s) > 0
    /\ \A i \in 1..Len(s) : SubSeq(s, i, i) \in Range(Digits)

RECURSIVE DigitsToInt(_, _)
\* The decimal value of the first n characters of a digit string.
DigitsToInt(s, n) ==
    IF n = 0 THEN 0
    ELSE 10 * DigitsToInt(s, n - 1) + DigitValue(SubSeq(s, n, n))

\* int(s) of a str: digits with an optional leading minus sign; anything
\* else raises ValueError (ok = FALSE).
StrToInt(s) ==
    IF IsDigits(s) THEN [ok |-> TRUE, v |-> DigitsToInt(s, Len(s))]
    ELSE IF Len(s) > 1 /\ SubSeq(s, 1, 1) = "-" /\ IsDigits(SubSeq(s, 2, Len(s)))
    THEN [ok |-> TRUE, v |-> -DigitsToInt(SubSeq(s, 2, Len(s)), Len(s) - 1)]
    ELSE [ok |-> FALSE, v |-> 0]

\* difficulty_key.startswith("难度")
StartsWithPrefix(key) == Len(key) >= 2 /\ SubSeq(key, 1, 2) = "难度"

\* A key parser that does not know the prefix: int(difficulty_key) always.
ParseDifficulty_bare(difficulty_key) == StrToInt(difficulty_key)

\* The tier a batch key names: int(difficulty_key[2:]) for a prefixed key,
\* int(difficulty_key) otherwise.
ParseDifficulty(difficulty_key) ==
    IF StartsWithPrefix(difficulty_key)
    THEN StrToInt(SubSeq(difficulty_key, 3, Len(difficulty_key)))
    ELSE StrToInt(difficulty_key)

RECURSIVE SendLoopV2(_, _, _, _, _)
\* web_v2.py send_to_app, the mapping branch: the entries from position i
\* on, given the store, updated_count and errors so far.  Each error is
\* recorded with the key it is about and the branch that appended it.  An
\* exception that is no ValueError or TypeError leaves the loop and the
\* handler's outer except answers 500.
SendLoopV2(configs, body, i, updated_count, errors) ==
    IF i > Len(body)
    THEN [configs |-> configs, updated_count |-> updated_count,
          errors |-> errors, raised |-> "none"]
    ELSE LET difficulty_key == body[i].key
             parsed == ParseDifficulty(difficulty_key)
             Err(why) == Append(errors, [key |-> difficulty_key, why |-> why])
         IN  IF ~parsed.ok
             THEN SendLoopV2(configs, body, i + 1, updated_count,
                             Err("parse"))
             ELSE IF parsed.v \notin Tiers
             THEN SendLoopV2(configs, body, i + 1, updated_count,
                             Err("invalid"))
             ELSE LET r == update_config(configs, parsed.v, body[i].data)
                  IN  IF r.ret = "True"
                      THEN SendLoopV2(r.configs, body, i + 1,
                                      updated_count + 1, errors)
                      ELSE IF r.ret = "False"
                      THEN SendLoopV2(r.configs, body, i + 1, updated_count,
                                      Err("validation"))
                      ELSE IF r.ret \in {"ValueError", "TypeError"}
                      THEN SendLoopV2(r.configs, body, i + 1, updated_count,
                                      Err("parse"))
                      ELSE [configs |-> r.configs,
                            updated_count |-> updated_count,
                            errors |-> errors, raised |-> r.ret]

\* The update part of web_v2.py send_to_app for a mapping body.
UpdateBulkV2(configs, body) == SendLoopV2(configs, body, 1, 0, <<>>)

----------------------------------------------------------------------------
(* backend.py / lightweight_backend.py: server_default_values *)

\* A scaling that rounds to the nearest integer instead of truncating.
ScaleWeight_rounded(x, total) == Trunc(2 * x * 10000 + total, 2 * total)

\* int(x * (10000 / total)) of init_server_default_values.
ScaleWeight(x, total) == Trunc(x * 10000, total)

\* One weight group of backend.py's defaults: every field scaled, then the
\* last field of the group adjusted so that the group totals 10000.
ScaledGroup(dist, fields) ==
    LET total == SumValues(dist, fields)
        scaled == [f \in Range(fields) |-> ScaleWeight(dist[f], total)]
        current_sum == SumValues(scaled, fields)
        last_field == fields[Len(fields)]
    IN  [scaled EXCEPT ![last_field] = @ + (10000 - current_sum)]

\* backend.py init_server_default_values, one tier
backend_init_tier(difficulty) ==
    LET prize == ScaledGroup(backend_prize_distributions[difficulty],
                             prize_fields)
        bonus == ScaledGroup(backend_bonus_distributions[difficulty],
                             bonus_fields)
    IN  [field \in Range(all_fields) |->
            IF field \in Range(base_fields)
            THEN IntV(backend_default_data[difficulty][field])
            ELSE IF field \in Range(prize_fields) THEN IntV(prize[field])
            ELSE IntV(bonus[field])]

\* backend.py init_server_default_values
backend_init_server_default_values ==
    [difficulty \in Tiers |-> backend_init_tier(difficulty)]

\* dict.get(field, 0)
GetOrZero(d, field) == IF field \in DOMAIN d THEN d[field] ELSE 0

\* lightweight_backend.py: the value of a field of a tier that the table
\* does not list, interpolated between the listed tiers 1, 5, 9.
Interpolated(table, difficulty, field) ==
    LET lower0 == ((difficulty - 1) \div 4) * 4 + 1
        upper0 == IF lower0 + 4 < 9 THEN lower0 + 4 ELSE 9
        lower_diff == IF lower0 = 9 THEN 5 ELSE lower0
        upper_diff == IF lower0 = 9 THEN 9 ELSE upper0
        lower_val == table[lower_diff][field]
        upper_val == table[upper_diff][field]
    IN  \* int(lower_val + (upper_val - lower_val) * ratio), ratio a
        \* multiple of 1/4
        IF upper_diff = lower_diff THEN lower_val
        ELSE Trunc(lower_val * (upper_diff - lower_diff)
                     + (upper_val - lower_val) * (difficulty - lower_diff),
                   upper_diff - lower_diff)

\* lightweight_backend.py init_server_default_values, one field of one tier
lightweight_init_field(table, difficulty, field) ==
    IF difficulty \in DOMAIN table
    THEN GetOrZero(table[difficulty], field)
    ELSE Interpolated(table, difficulty, field)

\* lightweight_backend.py init_server_default_values
lightweight_init_server_default_values ==
    [difficulty \in Tiers |->
        [field \in Range(all_fields) |->
            IntV(lightweight_init_field(
                    IF field \in Range(base_fields)
                    THEN lightweight_default_data
                    ELSE IF field \in Range(prize_fields)
                    THEN lightweight_prize_distributions
                    ELSE lightweight_bonus_distributions,
                    difficulty, field))]]

\* A snapshot that hands out each tier's stored dict as it is.
get_all_difficulties_data_stored(values) ==
    [label \in {TierLabel(d) : d \in Tiers} |->
        values[CHOOSE d \in Tiers : TierLabel(d) = label]]

\* get_all_difficulties_data(): the snapshot, label -> field -> value
get_all_difficulties_data(values) ==
    [label \in {TierLabel(d) : d \in Tiers} |->
        LET difficulty == CHOOSE d \in Tiers : TierLabel(d) = label
        IN  [field \in Range(all_fields) |-> values[difficulty][field]]]

\* `for key, value in difficulty_data.items(): values[difficulty][key] = value`
MergeItems(tier_values, m) ==
    [key \in DOMAIN tier_values \cup DOMAIN m |->
        IF key \in DOMAIN m THEN m[key] ELSE tier_values[key]]

RECURSIVE SendLoopDict(_, _, _)
\* backend.py / lightweight_backend.py send_to_app, the mapping branch, from
\* entry i on.  ValueError and TypeError skip the entry; a datum that is no
\* JSON object has no .items(), and that AttributeError leaves the handler.
SendLoopDict(values, body, i) ==
    IF i > Len(body) THEN [values |-> values, raised |-> "none"]
    ELSE LET parsed == ParseDifficulty(body[i].key)
             data == body[i].data
         IN  IF ~parsed.ok THEN SendLoopDict(values, body, i + 1)
             ELSE IF ~(1 <= parsed.v /\ parsed.v <= 9)
             THEN SendLoopDict(values, body, i + 1)
             ELSE IF data.kind # "map"
             THEN [values |-> values, raised |-> "AttributeError"]
             ELSE SendLoopDict(
                     [values EXCEPT ![parsed.v] = MergeItems(@, data.m)],
                     body, i + 1)

\* How many entries of a mapping body the merge loop of backend.py /
\* lightweight_backend.py applies: those whose key names a tier 1..9.
AppliedDict(body) ==
    Cardinality({i \in DOMAIN body :
                    /\ ParseDifficulty(body[i].key).ok
                    /\ ParseDifficulty(body[i].key).v \in Tiers
                    /\ body[i].data.kind = "map"})

\* The update part of backend.py / lightweight_backend.py send_to_app.
UpdateBulkDict(values, body) == SendLoopDict(values, body, 1)

----------------------------------------------------------------------------
(* Bounds and inputs *)

\* How many update_config calls one behaviour of Spec makes.
MaxUpdates == 2
\* How many /send requests one behaviour of SpecBulk makes.
MaxSends == 2
\* How many entries a /send body holds.
MaxEntries == 2

\* Patches (JSON objects) an operator may send for a tier.
PatchApple == "apple" :> IntV(7000)
PatchInverted == "eat_min" :> IntV(500) @@ "eat_max" :> IntV(300)
PatchDouble == "double_difficulty" :> IntV(30)
PatchSwap == "apple" :> IntV(800) @@ "orange" :> IntV(800)
PatchAllZero == [f \in Range(prize_fields) |-> IntV(0)]
PatchOneOutcome ==
    [f \in Range(prize_fields) |->
        IF f = "triple_small" THEN IntV(10000) ELSE IntV(0)]
PatchRate == "return_rate" :> FloatV(725)
PatchText == "apple" :> TextV
\* a number for a field that is read first and a string for a later one
PatchMixed == "double_difficulty" :> IntV(30) @@ "apple" :> TextV

\* a negative weight, made up for by another weight of the group (tier 1)
PatchNegative == "apple" :> IntV(-100) @@ "orange" :> IntV(1700)
\* rates beyond 100
PatchBusinessRate == "business_return_rate" :> IntV(150)
PatchReturnRate == "return_rate" :> IntV(150)

\* a weight too large for a float: 1e400
PatchInfinite == "apple" :> InfV
\* a field name no table has, next to a known one
PatchUnknown == "unknown_field" :> IntV(5) @@ "double_difficulty" :> IntV(30)
Patches ==
    {PatchApple, PatchInverted, PatchDouble, PatchSwap, PatchAllZero,
     PatchOneOutcome, PatchRate, PatchText, PatchMixed, PatchNegative,
     PatchBusinessRate, PatchReturnRate}

\* The tiers update_config is called with: two real tiers and one outside 1..9.
TierArgs == {1, 2, 10}

\* Batch keys: prefixed, bare, malformed, out of range.
Keys == {"难度1", "1", "2", "难度x", "10"}
\* Per-tier data of a batch.
BulkData == {MapData(PatchDouble), MapData(PatchApple)}

Entries == [key : Keys, data : BulkData]

\* The bodies of at most n entries with pairwise distinct keys.
RECURSIVE BodiesUpTo(_)
BodiesUpTo(n) ==
    IF n = 0 THEN {<<>>}
    ELSE LET shorter == BodiesUpTo(n - 1) IN
         shorter \cup
         {Append(b, e) : b \in {x \in shorter : Len(x) = n - 1}, e \in Entries}

DistinctKeys(body) ==
    \A i, j \in DOMAIN body : i # j => body[i].key # body[j].key

Bodies == {b \in BodiesUpTo(MaxEntries) : Len(b) > 0 /\ DistinctKeys(b)}

\* The /send bodies of SpecStores: one entry under a prefixed and under a
\* bare label; a failing entry (malformed label, tier out of range, a datum
\* that is no JSON object, a non-numeric value) before and after a good
\* one; a patch that breaks a group sum; a weight that is infinite;
\* a patch with an unknown field name.
Entry(key, data) == [key |-> key, data |-> data]
BatchBodies ==
    {<<Entry("难度1", MapData(PatchDouble))>>,
     <<Entry("1", MapData(PatchDouble))>>,
     <<Entry("难度1", MapData(PatchApple))>>,
     <<Entry("难度x", MapData(PatchDouble)), Entry("难度2", MapData(PatchDouble))>>,
     <<Entry("难度2", MapData(PatchDouble)), Entry("难度x", MapData(PatchDouble))>>,
     <<Entry("10", MapData(PatchDouble)), Entry("2", MapData(PatchRate))>>,
     <<Entry("难度1", ScalarData), Entry("难度2", MapData(PatchDouble))>>,
     <<Entry("难度2", MapData(PatchDouble)), Entry("难度1", PlainData)>>,
     <<Entry("难度1", MapData(PatchMixed)), Entry("难度2", MapData(PatchDouble))>>,
     <<Entry("2", MapData(PatchDouble)), Entry("1", MapData(PatchText))>>,
     <<Entry("0", MapData(PatchDouble)), Entry("难度10", MapData(PatchApple))>>,
     <<Entry("难度2", MapData(PatchDouble)), Entry("难度1", MapData(PatchInfinite))>>,
     <<Entry("难度1", MapData(PatchUnknown))>>}

\* Connections that ever open in one behaviour of SpecFanout.
NumSessions == 2
\* /send requests (broadcast rounds) in one behaviour of SpecFanout.
MaxRounds == 2

Sessions == 1..NumSessions
Rounds == 1..MaxRounds

\* The server programs of the repository.
Variants == {"web", "backend", "web_v2", "lightweight"}

\* The /send bodies of SpecFanout: one that updates tier 1 and one whose only
\* key is malformed.
FanoutBodies ==
    {<<[key |-> "难度1", data |-> MapData(PatchDouble)]>>,
     <<[key |-> "难度x", data |-> MapData(PatchApple)]>>}

----------------------------------------------------------------------------
(* State *)

VARIABLES
    configs,    \* GameConfigManager._configs (web_v2.py's config_manager)
    ops,        \* store operations performed so far (Spec, SpecBulk)
    last,       \* the last store operation: input, store before it, result
    held,       \* a snapshot a caller obtained from the store and keeps
    variant,    \* which server program runs (SpecFanout)
    server_default_values,  \* backend.py / lightweight_backend.py store
    version,    \* how many /send merges the store has seen
    active_connections,     \* the live set (lightweight_connections)
    transport,  \* per session: "new", "open", "closed" (peer gone) or
                \* "stalled" (peer there but no longer reading)
    handler,    \* per session: where its websocket handler stands
    sent,       \* per session: the first send_text call made on it
    rounds      \* per /send request: the state of its broadcast

storeVars == <<configs, ops, last, held>>
fanoutVars ==
    <<variant, server_default_values, version, active_connections,
      transport, handler, sent, rounds>>
vars ==
    <<configs, ops, last, held, variant, server_default_values, version,
      active_connections, transport, handler, sent, rounds>>

\* A message's "data" member: what it is (a snapshot of the store, the
\* request body, web.py's msg), after how many merges it was taken, and the
\* tier labels it has as keys, and its content.
NoPayload == [kind |-> "none", ver |-> 0, labels |-> {}, data |-> <<>>]

\* A /send request that has not arrived yet.
IdleRound ==
    [pc |-> "idle",             \* idle, sending, scheduled, gathering, done, raised
     exc |-> "none",            \* what the request raised, if it did
     payload |-> NoPayload,
     connections |-> <<>>,      \* web_v2 / lightweight: list(active_connections)
     pos |-> 0,                 \* iterator position: last session / index visited
     iter_len |-> 0,            \* len(active_connections) when iteration began
     removed_clients |-> <<>>,  \* removed_clients / disconnected
     success_count |-> 0,
     dumps |-> 0,               \* json.dumps calls made for the message
     reported |-> {},           \* the count the caller is told, if any
     pending |-> {},            \* lightweight: send tasks not yet run
     stuck |-> {},              \* sessions whose send_text never returns
     \* history, read by the properties only:
     applied |-> 0,             \* entries of the request's batch that were applied
     live_at_start |-> {},      \* the live set when the round began
     failed_earlier |-> {},     \* sessions whose send had failed in a round
                                \* that had ended when this one began
     tried |-> {},              \* sessions this round called send_text on
     failed |-> {},             \* sessions whose send raised in this round
     payloads |-> {},           \* the payloads passed to send_text
     merges_at_sends |-> {},    \* how many merges the store had seen at each
     left_during |-> {}]        \* sessions their handler removed meanwhile

\* No send_text call has been made on the session yet.
NotSent == [round |-> -1, payload |-> NoPayload, ok |-> FALSE]

\* No snapshot is held.
NoSnapshot == [api |-> "none"]

StoreInit ==
    /\ configs = _initialize_default_configs
    /\ ops = 0
    /\ last = [op |-> "none"]
    /\ held = NoSnapshot

FanoutIdle ==
    /\ version = 0
    /\ active_connections = {}
    /\ transport = [s \in Sessions |-> "new"]
    /\ handler = [s \in Sessions |-> "none"]
    /\ sent = [s \in Sessions |-> NotSent]
    /\ rounds = [r \in Rounds |-> IdleRound]

\* The store alone: web_v2.py's config_manager, no connection.
Init ==
    /\ StoreInit
    /\ variant = "web_v2"
    /\ server_default_values = <<>>
    /\ FanoutIdle

\* A call config_manager.update_config(difficulty, config_data).
UpdateConfig(difficulty, config_data) ==
    /\ ops < MaxUpdates
    /\ LET r == update_config(configs, difficulty, config_data) IN
       /\ configs' = r.configs
       /\ last' = [op |-> "update_config", difficulty |-> difficulty,
                   config_data |-> config_data, before |-> configs,
                   ret |-> r.ret]
    /\ ops' = ops + 1
    /\ UNCHANGED <<held, fanoutVars>>

\* update_config called with the tier's own serialization, to_dict(difficulty).
UpdateConfigSelf(difficulty) ==
    UpdateConfig(difficulty, MapData(to_dict(configs, difficulty)))

Next ==
    \/ \E difficulty \in TierArgs, patch \in Patches :
          UpdateConfig(difficulty, MapData(patch))
    \/ \E difficulty \in TierArgs \cap Tiers : UpdateConfigSelf(difficulty)

Spec == Init /\ [][Next]_vars

\* web_v2.py POST /send with a mapping body while no session is connected:
\* the merge loop, then ConnectionManager.broadcast, which returns at once
\* on an empty live set.
SendBulk(body) ==
    /\ ops < MaxSends
    /\ LET r == UpdateBulkV2(configs, body) IN
       /\ configs' = r.configs
       /\ last' = [op |-> "send", body |-> body, before |-> configs,
                   updated_count |-> r.updated_count, errors |-> r.errors,
                   raised |-> r.raised]
    /\ ops' = ops + 1
    /\ version' = version + 1
    /\ UNCHANGED <<held, variant, server_default_values, active_connections,
                   transport, handler, sent, rounds>>

NextBulk == \E body \in Bodies : SendBulk(body)

SpecBulk == Init /\ [][NextBulk]_vars

\* backend.py / lightweight_backend.py POST /send with a mapping body while
\* no session is connected: the merge loop, then a broadcast to nobody.  An
\* exception the loop does not catch leaves the handler (the request fails).
SendDict(body) ==
    /\ variant \in {"backend", "lightweight"}
    /\ ops < MaxSends
    /\ LET r == UpdateBulkDict(server_default_values, body) IN
       /\ server_default_values' = r.values
       /\ last' = [op |-> "send_dict", body |-> body,
                   before |-> server_default_values, raised |-> r.raised]
    /\ ops' = ops + 1
    /\ version' = version + 1
    /\ UNCHANGED <<configs, held, variant, active_connections, transport, handler,
                   sent, rounds>>

\* A validation pass over tier `difficulty`: _validate_config on the stored
\* object, and AppSimulator.validate_config on the tier as a device receives
\* it (to_dict).  `received` is the device's dict after the pass.
ValidateTier(difficulty) ==
    /\ variant = "web_v2"
    /\ configs' = [configs EXCEPT ![difficulty] = _validate_config_leaves(@)]
    /\ last' = [op |-> "validate", difficulty |-> difficulty,
                before |-> configs,
                ret |-> _validate_config(configs[difficulty]),
                report |-> validate_config(to_dict(configs, difficulty)),
                received |-> validate_config_leaves(to_dict(configs, difficulty))]
    /\ UNCHANGED <<ops, held, fanoutVars>>

\* The three servers that hold a store, with no session connected.
InitStores ==
    /\ StoreInit
    /\ variant \in {"web_v2", "backend", "lightweight"}
    /\ server_default_values =
          CASE variant = "backend" -> backend_init_server_default_values
            [] variant = "lightweight" -> lightweight_init_server_default_values
            [] OTHER -> <<>>
    /\ FanoutIdle

NextStores ==
    \/ variant = "web_v2" /\ Next
    \/ variant = "web_v2" /\ \E body \in BatchBodies : SendBulk(body)
    \/ \E body \in BatchBodies : SendDict(body)
    \/ \E difficulty \in TierArgs \cap Tiers : ValidateTier(difficulty)

SpecStores == InitStores /\ [][NextStores]_vars

----------------------------------------------------------------------------
(* The correction pass of _calculate_prize_distribution on its own *)

\* Base tables the pass is given: a tier's table as written, with the
\* largest outcome, a middle outcome and the overflow outcome each either
\* kept, emptied or enlarged.  All weights are non-negative.
BaseTiers == {1, 5, 9}
TripleWeights(d) == {prize_base_distributions[d]["triple_small"], 0, 100}
AppleWeights(d) == {prize_base_distributions[d]["apple"], 0, 6051, 20000}
PigWeights(d) == {prize_base_distributions[d]["golden_pig"], 0, 11000}
BaseDistributions ==
    UNION {{[prize_base_distributions[d] EXCEPT !["triple_small"] = t,
                                                !["apple"] = a,
                                                !["golden_pig"] = g] :
               t \in TripleWeights(d), a \in AppleWeights(d),
               g \in PigWeights(d)} : d \in BaseTiers}

InitCorrection ==
    /\ configs = _initialize_default_configs
    /\ ops = 0
    /\ last \in {[op |-> "base", dist |-> b] : b \in BaseDistributions}
    /\ held = NoSnapshot
    /\ variant = "web_v2"
    /\ server_default_values = <<>>
    /\ FanoutIdle

\* _calculate_prize_distribution runs on the base table.
CalculatePrizeDistribution ==
    /\ last.op = "base"
    /\ last' = [op |-> "prize_distribution", base |-> last.dist,
                dist |-> _calculate_prize_distribution_correct(last.dist)]
    /\ ops' = ops + 1
    /\ UNCHANGED <<configs, held, fanoutVars>>

NextCorrection == CalculatePrizeDistribution

SpecCorrection == InitCorrection /\ [][NextCorrection]_vars

----------------------------------------------------------------------------
(* Snapshots of the store in a caller's hands *)

\* The three calls that hand out all tiers at once.
SnapshotApis == {"get_all_configs", "to_dict_all", "get_all_difficulties_data"}

\* What the held snapshot shows when read now.  get_all_configs returns
\* self._configs.copy(): a new dict whose values are the store's own
\* DifficultyConfig objects, so reading a tier reads the live object.
\* to_dict_all and get_all_difficulties_data build new dicts of numbers.
Shows(h) ==
    IF h.api = "get_all_configs"
    THEN [d \in h.value |-> configs[d]]
    ELSE h.value

\* A caller obtains a snapshot and keeps it.
GetSnapshot(api) ==
    /\ held = NoSnapshot
    /\ CASE api = "get_all_configs" ->
              /\ variant = "web_v2"
              /\ held' = [api |-> api, value |-> DOMAIN configs,
                          taken |-> configs, mutated |-> FALSE]
         [] api = "to_dict_all" ->
              /\ variant = "web_v2"
              /\ held' = [api |-> api, value |-> to_dict_all(configs),
                          taken |-> to_dict_all(configs), mutated |-> FALSE]
         [] api = "get_all_difficulties_data" ->
              /\ variant \in {"backend", "lightweight"}
              /\ held' =
                    [api |-> api,
                     value |-> get_all_difficulties_data(server_default_values),
                     taken |-> get_all_difficulties_data(server_default_values),
                     mutated |-> FALSE]
    /\ UNCHANGED <<configs, ops, last, fanoutVars>>

\* The caller assigns 77 to 比倍难度 of tier `difficulty` in the snapshot it
\* holds: snapshot[difficulty].double_difficulty = 77 on a get_all_configs
\* result, snapshot["难度N"]["比倍难度"] = 77 on the dict snapshots.
MutateSnapshot(difficulty) ==
    /\ held # NoSnapshot
    /\ ~held.mutated
    /\ IF held.api = "get_all_configs"
       THEN /\ configs' = [configs EXCEPT ![difficulty].double_difficulty = 77]
            /\ held' = [held EXCEPT !.mutated = TRUE]
       ELSE /\ held' = [held EXCEPT
                          !.value[TierLabel(difficulty)]["double_difficulty"] = IntV(77),
                          !.mutated = TRUE]
            /\ UNCHANGED configs
    /\ last' = [op |-> "mutate_snapshot", difficulty |-> difficulty,
                before |-> configs, values_before |-> server_default_values]
    /\ UNCHANGED <<ops, fanoutVars>>

NextSnapshot ==
    \/ NextStores
    \/ \E api \in SnapshotApis : GetSnapshot(api)
    \/ \E difficulty \in TierArgs \cap Tiers : MutateSnapshot(difficulty)

SpecSnapshot == InitStores /\ [][NextSnapshot]_vars

----------------------------------------------------------------------------
(* The fan-out: websocket handlers and /send broadcasts of the four        *)
(* variants.  A session is a WebSocket object; the live set is a Python    *)
(* set (a WeakSet in lightweight_backend.py), iterated in slot order, which *)
(* is modelled as the order of the session numbers.  Every `await` of a    *)
(* send is a point where the other coroutines may run; the code between    *)
(* two awaits is one step.  A send_text call succeeds exactly when the     *)
(* peer is still there.                                                    *)

InitFanout ==
    /\ StoreInit
    /\ variant \in Variants
    /\ server_default_values =
          CASE variant = "backend" -> backend_init_server_default_values
            [] variant = "lightweight" -> lightweight_init_server_default_values
            [] OTHER -> <<>>
    /\ FanoutIdle

Min(S) == CHOOSE x \in S : \A y \in S : x <= y

RECURSIVE SetToList(_)
\* list(active_connections)
SetToList(S) ==
    IF S = {} THEN <<>> ELSE <<Min(S)>> \o SetToList(S \ {Min(S)})

\* The content of a snapshot message as the model keeps it: the tiers that
\* a request of the model addresses (the others keep their defaults).
SnapshotData(snapshot) ==
    [label \in {TierLabel(d) : d \in TierArgs \cap Tiers} |-> snapshot[label]]

\* The payload of a snapshot message: to_dict_all() / get_all_difficulties_data()
\* of the store as it stands after `version` merges.
SnapshotPayload ==
    [kind |-> "snapshot", ver |-> version,
     labels |-> IF variant = "web_v2" THEN DOMAIN to_dict_all(configs)
                ELSE DOMAIN get_all_difficulties_data(server_default_values),
     data |-> SnapshotData(IF variant = "web_v2" THEN to_dict_all(configs)
                           ELSE get_all_difficulties_data(server_default_values))]

\* The payload of backend.py's push message: `"data": body`, the request
\* body as it arrived.
BodyPayload(body, ver) ==
    [kind |-> "body", ver |-> ver, labels |-> {body[i].key : i \in DOMAIN body},
     data |-> [label \in {body[i].key : i \in DOMAIN body} |->
                 body[CHOOSE i \in DOMAIN body : body[i].key = label].data]]

\* The log of first sends after one send_text call on session s.
SentAfter(s, r, payload, ok) ==
    IF sent[s].round # -1 THEN sent
    ELSE [sent EXCEPT ![s] = [round |-> r, payload |-> payload, ok |-> ok]]

\* The sessions whose send had failed in a round that has ended.
FailedInEndedRounds ==
    UNION {rounds[q].failed : q \in {x \in Rounds : rounds[x].pc \in {"done", "raised"}}}

\* A broadcast that sends inside `async with self._lock`.
LockHeldWhileSending_inside == TRUE

\* web_v2.py ConnectionManager.broadcast: does the coroutine hold self._lock
\* while it awaits a send?  `async with self._lock` encloses only
\* `connections = list(self.active_connections)` and, later, the discard
\* loop; the send loop stands between the two blocks, outside both.
LockHeldWhileSending == FALSE

\* ConnectionManager._lock can be acquired: no broadcast holds it.  (The
\* other programs have no lock.)
LockFree ==
    variant = "web_v2" =>
        \A r \in Rounds : ~(rounds[r].pc = "sending" /\ LockHeldWhileSending)

\* A connection arrives: `await websocket.accept()`, then the session joins the
\* live set (web_v2.py: under the lock) and, except in web.py, is sent the
\* current snapshot (a failure is logged and ignored); the handler then
\* waits in its receive loop
\* (lightweight: on a Future).  The peer may be gone by the time of the send.
Connect(s, peer_there) ==
    /\ handler[s] = "none"
    /\ transport[s] = "new"
    /\ LockFree
    /\ transport' = [transport EXCEPT ![s] = IF peer_there THEN "open" ELSE "closed"]
    /\ active_connections' = active_connections \cup {s}
    /\ sent' = IF variant = "web" THEN sent
               ELSE SentAfter(s, 0, SnapshotPayload, peer_there)
    /\ handler' = [handler EXCEPT ![s] = "receiving"]
    /\ UNCHANGED <<storeVars, variant, server_default_values, version, rounds>>

\* The peer goes away (closes, or the network drops).
Close(s) ==
    /\ transport[s] = "open"
    /\ transport' = [transport EXCEPT ![s] = "closed"]
    /\ UNCHANGED <<storeVars, variant, server_default_values, version,
                   active_connections, handler, sent, rounds>>

\* The peer of a live session stops reading: from now on a send_text to it
\* neither returns nor raises.
Stall(s) ==
    /\ transport[s] = "open"
    /\ s \in active_connections
    /\ transport' = [transport EXCEPT ![s] = "stalled"]
    /\ UNCHANGED <<storeVars, variant, server_default_values, version,
                   active_connections, handler, sent, rounds>>

\* The rounds with session s noted as having left while they were sending.
NoteLeft(s) ==
    [r \in Rounds |->
        IF rounds[r].pc \in {"sending", "gathering"}
        THEN [rounds[r] EXCEPT !.left_during = @ \cup {s}]
        ELSE rounds[r]]

\* receive_text() raises WebSocketDisconnect: web.py and backend.py call
\* active_connections.remove (KeyError when the session is not in the set),
\* web_v2.py calls ConnectionManager.disconnect (discard).
HandlerDisconnect(s) ==
    /\ variant # "lightweight"
    /\ handler[s] = "receiving"
    /\ transport[s] = "closed"
    /\ LockFree
    /\ IF variant \in {"web", "backend"} /\ s \notin active_connections
       THEN /\ handler' = [handler EXCEPT ![s] = "raised"]
            /\ UNCHANGED <<active_connections, rounds>>
       ELSE /\ handler' = [handler EXCEPT ![s] = "returned"]
            /\ active_connections' = active_connections \ {s}
            /\ rounds' = IF s \in active_connections THEN NoteLeft(s) ELSE rounds
    /\ UNCHANGED <<storeVars, variant, server_default_values, version,
                   transport, sent>>

\* lightweight_backend.py: the handler awaits a Future nothing completes; it
\* ends when its task is cancelled, and its finally clause discards the session.
Cancelled(s) ==
    /\ variant = "lightweight"
    /\ handler[s] = "receiving"
    /\ handler' = [handler EXCEPT ![s] = "returned"]
    /\ active_connections' = active_connections \ {s}
    /\ rounds' = IF s \in active_connections THEN NoteLeft(s) ELSE rounds
    /\ UNCHANGED <<storeVars, variant, server_default_values, version,
                   transport, sent>>

\* A message built from the store as it stands at the time of the send.
MessageFor_rebuilt(rd) == [rd.payload EXCEPT !.ver = version]

\* The payload a send of the round passes to send_text: the string built
\* before the loop (message / message_str / message_json); web.py calls
\* json.dumps in the loop, each time on the request's own msg.
MessageFor(rd) == rd.payload

\* The round record after one send_text call on session s; newpos is the
\* iterator position (backend.py alone counts successes).
Attempt(rd, s, newpos) ==
    LET ok == transport[s] = "open"
        raises == transport[s] \notin {"open", "stalled"}
    IN
    [rd EXCEPT !.pc = "sending",
               !.pos = newpos,
               !.tried = @ \cup {s},
               !.stuck = IF transport[s] = "stalled" THEN @ \cup {s} ELSE @,
               !.failed = IF raises THEN @ \cup {s} ELSE @,
               !.payloads = @ \cup {MessageFor(rd)},
               !.merges_at_sends = @ \cup {version},
               !.dumps = IF variant = "web" THEN @ + 1 ELSE @,
               !.success_count = IF ok /\ variant = "backend" THEN @ + 1 ELSE @,
               !.removed_clients = IF raises THEN Append(@, s) ELSE @]

RECURSIVE RemoveEach(_, _, _)
\* `for ws in removed_clients: active_connections.remove(ws)`: set.remove
\* raises KeyError for an element that is not in the set.
RemoveEach(live, removed_clients, i) ==
    IF i > Len(removed_clients) THEN [live |-> live, exc |-> "none"]
    ELSE IF removed_clients[i] \notin live
    THEN [live |-> live, exc |-> "KeyError"]
    ELSE RemoveEach(live \ {removed_clients[i]}, removed_clients, i + 1)

\* next() of the iterator of `for ws in active_connections`: RuntimeError
\* when the set's size differs from its size when the loop began, else the
\* next member in slot order, else StopIteration.
IterNext(rd, live) ==
    IF Cardinality(live) # rd.iter_len THEN [kind |-> "RuntimeError", s |-> 0]
    ELSE IF {s \in live : s > rd.pos} = {} THEN [kind |-> "stop", s |-> 0]
    ELSE [kind |-> "item", s |-> Min({s \in live : s > rd.pos})]

\* web.py / backend.py: the broadcast loop of round r from record rd on, up
\* to its next await (or its end: the removal loop and the return, which
\* tells the caller success_count in backend.py and len(active_connections)
\* in web.py).
LoopOverSet(r, rd) ==
    LET nx == IterNext(rd, active_connections) IN
    CASE nx.kind = "RuntimeError" ->
            /\ rounds' = [rounds EXCEPT ![r] =
                            [rd EXCEPT !.pc = "raised", !.exc = "RuntimeError"]]
            /\ UNCHANGED <<active_connections, sent>>
      [] nx.kind = "stop" ->
            LET c == RemoveEach(active_connections, rd.removed_clients, 1) IN
            /\ active_connections' = c.live
            /\ rounds' = [rounds EXCEPT ![r] =
                            [rd EXCEPT !.pc = IF c.exc = "none" THEN "done"
                                              ELSE "raised",
                                       !.exc = c.exc,
                                       !.reported =
                                          IF c.exc # "none" THEN {}
                                          ELSE IF variant = "backend"
                                          THEN {rd.success_count}
                                          ELSE {Cardinality(c.live)}]]
            /\ UNCHANGED sent
      [] nx.kind = "item" ->
            /\ rounds' = [rounds EXCEPT ![r] = Attempt(rd, nx.s, nx.s)]
            /\ sent' = SentAfter(nx.s, r, MessageFor(rd), transport[nx.s] = "open")
            /\ UNCHANGED active_connections

\* web_v2.py ConnectionManager.broadcast: the loop over the copied list from
\* record rd on, up to its next await (or its end: the discards).
LoopOverList(r, rd) ==
    IF rd.pos + 1 > Len(rd.connections)
    THEN /\ active_connections' = active_connections \ Range(rd.removed_clients)
         /\ rounds' = [rounds EXCEPT ![r] = [rd EXCEPT !.pc = "done"]]
         /\ UNCHANGED sent
    ELSE LET s == rd.connections[rd.pos + 1] IN
         /\ rounds' = [rounds EXCEPT ![r] = Attempt(rd, s, rd.pos + 1)]
         /\ sent' = SentAfter(s, r, MessageFor(rd), transport[s] = "open")
         /\ UNCHANGED active_connections

\* The record of a round that begins to broadcast `payload` now.
Begun(r, payload) ==
    [rounds[r] EXCEPT !.payload = payload,
                      !.dumps = IF variant = "web" THEN 0 ELSE 1,
                      !.iter_len = Cardinality(active_connections),
                      !.live_at_start = active_connections,
                      !.failed_earlier = FailedInEndedRounds]

\* POST /send arrives: the handler from `body = await request.json()` to its
\* first await of a send (or to its return).
StartSend(r, body) ==
    /\ rounds[r].pc = "idle"
    /\ LockFree
    /\ \A q \in Rounds : q < r => rounds[q].pc # "idle"
    /\ CASE variant = "web" ->
              \* no store: the payload is body.get("msg")
              /\ LoopOverSet(r, Begun(r, [kind |-> "msg", ver |-> version,
                                            labels |-> {}, data |-> <<>>]))
              /\ UNCHANGED <<configs, server_default_values, version>>
         [] variant = "backend" ->
              \* merge, then broadcast the request body itself
              LET m == UpdateBulkDict(server_default_values, body) IN
              /\ server_default_values' = m.values
              /\ version' = version + 1
              /\ IF m.raised # "none"
                 THEN /\ rounds' = [rounds EXCEPT ![r].pc = "raised",
                                                  ![r].exc = m.raised]
                      /\ UNCHANGED <<active_connections, sent>>
                 ELSE LoopOverSet(r, [Begun(r, BodyPayload(body, version + 1))
                                         EXCEPT !.applied = AppliedDict(body)])
              /\ UNCHANGED configs
         [] variant = "web_v2" ->
              \* merge, then broadcast to_dict_all()
              LET m == UpdateBulkV2(configs, body)
                  p == [kind |-> "snapshot", ver |-> version + 1,
                        labels |-> DOMAIN to_dict_all(m.configs),
                        data |-> SnapshotData(to_dict_all(m.configs))]
                  b == [Begun(r, p) EXCEPT !.applied = m.updated_count]
              IN
              /\ configs' = m.configs
              /\ version' = version + 1
              /\ IF m.raised # "none"
                 THEN /\ rounds' = [rounds EXCEPT ![r].pc = "raised",
                                                  ![r].exc = m.raised]
                      /\ UNCHANGED <<active_connections, sent>>
                 ELSE IF active_connections = {}
                 THEN /\ rounds' = [rounds EXCEPT ![r] =
                                         [b EXCEPT !.pc = "done", !.dumps = 0]]
                      /\ UNCHANGED <<active_connections, sent>>
                 ELSE LoopOverList(r, [b EXCEPT !.connections =
                                          SetToList(active_connections)])
              /\ UNCHANGED server_default_values
         [] variant = "lightweight" ->
              \* merge, then create_task(broadcast_to_lightweight_devices(snapshot))
              \* and answer with len(lightweight_connections)
              LET m == UpdateBulkDict(server_default_values, body) IN
              /\ server_default_values' = m.values
              /\ version' = version + 1
              /\ rounds' = IF m.raised # "none"
                           THEN [rounds EXCEPT ![r].pc = "raised",
                                               ![r].exc = m.raised]
                           ELSE [rounds EXCEPT ![r].pc = "scheduled",
                                               ![r].applied = AppliedDict(body),
                                               ![r].reported =
                                                  {Cardinality(active_connections)},
                                               ![r].payload =
                                                  [kind |-> "snapshot",
                                                   ver |-> version + 1,
                                                   labels |-> DOMAIN
                                                     get_all_difficulties_data(m.values),
                                                   data |-> SnapshotData(
                                                     get_all_difficulties_data(m.values))]]
              /\ UNCHANGED <<configs, active_connections, sent>>
    /\ UNCHANGED <<ops, last, held, variant, transport, handler>>

\* A send of round r returns (or raises) and the loop goes on.
SendStep(r) ==
    /\ rounds[r].pc = "sending"
    /\ rounds[r].stuck = {}
    /\ IF variant = "web_v2" THEN LoopOverList(r, rounds[r])
       ELSE LoopOverSet(r, rounds[r])
    /\ UNCHANGED <<storeVars, variant, server_default_values, version,
                   transport, handler>>

\* lightweight_backend.py: the broadcast task starts; it copies the live set
\* and creates one send task per connection, then awaits them all.
BroadcastTask(r) ==
    /\ variant = "lightweight"
    /\ rounds[r].pc = "scheduled"
    /\ rounds' = [rounds EXCEPT ![r] =
          IF active_connections = {}
          THEN [@ EXCEPT !.pc = "done"]
          ELSE [@ EXCEPT !.pc = "gathering",
                         !.dumps = 1,
                         !.connections = SetToList(active_connections),
                         !.pending = active_connections,
                         !.live_at_start = active_connections,
                         !.failed_earlier = FailedInEndedRounds]]
    /\ UNCHANGED <<storeVars, variant, server_default_values, version,
                   active_connections, transport, handler, sent>>

\* lightweight_backend.py send_to_single_lightweight_device: one send task;
\* a failed send discards the connection.  gather returns after the last
\* one, and never if a send does not return.
SendTask(r, s) ==
    /\ variant = "lightweight"
    /\ rounds[r].pc = "gathering"
    /\ s \in rounds[r].pending
    /\ LET ok == transport[s] = "open"
           raises == transport[s] \notin {"open", "stalled"}
           stuck == IF transport[s] = "stalled" THEN rounds[r].stuck \cup {s}
                    ELSE rounds[r].stuck
       IN
       /\ sent' = SentAfter(s, r, MessageFor(rounds[r]), ok)
       /\ active_connections' = IF raises THEN active_connections \ {s}
                                ELSE active_connections
       /\ rounds' = [rounds EXCEPT ![r] =
             [@ EXCEPT !.pending = @ \ {s},
                       !.tried = @ \cup {s},
                       !.stuck = stuck,
                       !.failed = IF raises THEN @ \cup {s} ELSE @,
                       !.payloads = @ \cup {MessageFor(rounds[r])},
                       !.merges_at_sends = @ \cup {version},
                       !.pc = IF rounds[r].pending = {s} /\ stuck = {} THEN "done"
                              ELSE "gathering"]]
    /\ UNCHANGED <<storeVars, variant, server_default_values, version,
                   transport, handler>>

NextFanout ==
    \/ \E s \in Sessions, peer_there \in BOOLEAN : Connect(s, peer_there)
    \/ \E s \in Sessions : Close(s)
    \/ \E s \in Sessions : HandlerDisconnect(s)
    \/ \E s \in Sessions : Cancelled(s)
    \/ \E r \in Rounds, body \in FanoutBodies : StartSend(r, body)
    \/ \E r \in Rounds : SendStep(r)
    \/ \E r \in Rounds : BroadcastTask(r)
    \/ \E r \in Rounds, s \in Sessions : SendTask(r, s)

SpecFanout == InitFanout /\ [][NextFanout]_vars

\* The fan-out with peers that may stop reading.
NextStall ==
    \/ NextFanout
    \/ \E s \in Sessions : Stall(s)

SpecStall == InitFanout /\ [][NextStall]_vars

----------------------------------------------------------------------------
(* Properties of the store (Spec, SpecBulk) *)

\* The last operation was update_config on an existing tier with a JSON
\* object all of whose members are numbers.
NumericUpdate ==
    /\ last.op = "update_config"
    /\ last.difficulty \in Tiers
    /\ last.config_data.kind = "map"
    /\ \A f \in DOMAIN last.config_data.m : Converts(last.config_data.m[f])

\* Both weight groups of a tier sum to the fixed total.
GroupsTotal(config) ==
    /\ SumValues(config.prize_distribution, prize_fields) = 10000
    /\ SumValues(config.bonus_distribution, BONUS_MULTIPLIERS_keys) = 10000

\* C1: after update_config with a numeric partial update of a tier, the
\* primary weight group and the bonus weight group of that tier each sum to
\* exactly 10000, whatever the input weights.
C1_GroupsSumAfterUpdate ==
    NumericUpdate => GroupsTotal(configs[last.difficulty])

\* The last operation was an update_config call that returned True.
ReportedSuccessful == last.op = "update_config" /\ last.ret = "True"

\* Every weight of both weight groups of every tier is at least 0.
WeightsNonNegative(store) ==
    \A d \in Tiers :
        /\ \A f \in Range(prize_fields) : store[d].prize_distribution[f] >= 0
        /\ \A f \in Range(BONUS_MULTIPLIERS_keys) : store[d].bonus_distribution[f] >= 0

\* C24: an update reported as successful (update_config returned True)
\* leaves every weight of both weight groups of every tier >= 0, the
\* weights having been >= 0 before it.
C24_WeightsStayNonNegative ==
    (ReportedSuccessful /\ WeightsNonNegative(last.before))
        => WeightsNonNegative(configs)

\* Both percentage rates of every tier lie in [0, 100].
RatesInRange(store) ==
    \A d \in Tiers :
        /\ 0 <= Tenths(store[d].return_rate)
        /\ Tenths(store[d].return_rate) <= 1000
        /\ 0 <= Tenths(store[d].business_return_rate)
        /\ Tenths(store[d].business_return_rate) <= 1000

\* C25: an update reported as successful leaves both percentage rates of
\* every tier in [0, 100], the rates having been there before it.
C25_RatesStayInRange ==
    (ReportedSuccessful /\ RatesInRange(last.before)) => RatesInRange(configs)

\* The last update set both bounds, the lower one not below the upper one.
InvertedBounds ==
    /\ NumericUpdate
    /\ {"eat_min", "eat_max"} \subseteq DOMAIN last.config_data.m
    /\ PyInt(last.config_data.m["eat_min"]) >= PyInt(last.config_data.m["eat_max"])

\* C2: an update that sets an inverted bound pair is rejected, and after the
\* rejection the tier's stored bounds are the ones from before the update.
C2_InvertedBoundsLeaveStore ==
    InvertedBounds =>
        /\ last.ret # "True"
        /\ configs[last.difficulty].eat_min = last.before[last.difficulty].eat_min
        /\ configs[last.difficulty].eat_max = last.before[last.difficulty].eat_max

\* The last update patched a tier whose groups summed to 10000 with that
\* tier's own serialization.
SelfUpdate ==
    /\ last.op = "update_config"
    /\ last.difficulty \in Tiers
    /\ GroupsTotal(last.before[last.difficulty])
    /\ last.config_data = MapData(to_dict(last.before, last.difficulty))

\* C7: update_config with the tier's own to_dict as the patch leaves every
\* stored field of every tier as it was (type included: what is serialized
\* afterwards is byte for byte what was serialized before).
C7_SelfUpdateChangesNothing ==
    SelfUpdate => configs = last.before

\* The last update set the single primary weight "apple" of a tier whose
\* groups summed to 10000.
SingleWeightUpdate ==
    /\ NumericUpdate
    /\ DOMAIN last.config_data.m = {"apple"}
    /\ GroupsTotal(last.before[last.difficulty])

\* C8: a patch of one weight of a group that summed to 10000 stores that
\* weight as requested and adjusts one other outcome of the group (the
\* overflow outcome) by the difference, so that the group sums to 10000 again.
C8_OverflowAbsorbsDifference ==
    SingleWeightUpdate =>
        LET old == last.before[last.difficulty].prize_distribution
            new == configs[last.difficulty].prize_distribution
            w == PyInt(last.config_data.m["apple"])
        IN  /\ new["apple"] = w
            /\ SumValues(new, prize_fields) = 10000
            /\ \E overflow \in Range(prize_fields) \ {"apple"} :
                  /\ new[overflow] = old[overflow] - (w - old["apple"])
                  /\ \A f \in Range(prize_fields) \ {"apple", overflow} :
                        new[f] = old[f]

\* The last update carried a value that is no number.
NonNumericUpdate ==
    /\ last.op = "update_config"
    /\ last.difficulty \in Tiers
    /\ last.config_data.kind = "map"
    /\ \E f \in DOMAIN last.config_data.m : ~Converts(last.config_data.m[f])

\* C15: an update with a non-numeric field value is rejected and leaves the
\* whole tier as it was, the numeric fields of the same patch included.
C15_NonNumericLeavesTier ==
    NonNumericUpdate =>
        /\ last.ret # "True"
        /\ configs[last.difficulty] = last.before[last.difficulty]

\* The labels that name a tier: "难度1".."难度9" and "1".."9".
WellFormedLabels == {TierLabel(d) : d \in Tiers} \cup {ToString(d) : d \in Tiers}

\* A patch that is valid by itself: numbers only, and a table that holds the
\* defaults stays valid when the patch is merged into any of its tiers.
ValidPatch(data) ==
    /\ data.kind = "map"
    /\ \A f \in DOMAIN data.m : Converts(data.m[f])
    /\ \A d \in Tiers :
          update_config(_initialize_default_configs, d, data).ret = "True"

\* The last batch held exactly one malformed label, every other entry being
\* a valid patch under a well-formed label.
OneMalformedLabel ==
    /\ last.op = "send"
    /\ Cardinality({i \in DOMAIN last.body :
                       last.body[i].key \notin WellFormedLabels}) = 1
    /\ \A i \in DOMAIN last.body :
          last.body[i].key \in WellFormedLabels => ValidPatch(last.body[i].data)

\* C6: a batch of N entries of which exactly one has a malformed tier label,
\* the others being well-formed valid patches, updates N-1 tiers and reports
\* exactly one error.
C6_OneErrorRestUpdated ==
    OneMalformedLabel =>
        /\ last.updated_count = Len(last.body) - 1
        /\ Len(last.errors) = 1

\* The last operation was an update of a tier that the store rejected.
RejectedUpdate ==
    /\ last.op = "update_config"
    /\ last.difficulty \in Tiers
    /\ last.ret # "True"

\* This step is an update of the tier whose update was rejected last, with
\* a patch the tier's state before the rejected update would have accepted.
UpdateAfterRejected ==
    /\ RejectedUpdate
    /\ ops' = ops + 1
    /\ last'.op = "update_config"
    /\ last'.difficulty = last.difficulty
    /\ update_config(last.before, last.difficulty, last'.config_data).ret = "True"

\* C34: a rejected update does not influence later updates to the same
\* tier: a patch that would be accepted when applied to the tier's state
\* before the rejection is also accepted when applied after the rejected
\* patch.
C34_RejectedUpdateLeavesNoTrace ==
    [][UpdateAfterRejected => last'.ret = "True"]_vars

----------------------------------------------------------------------------
(* Properties of the stores under single updates and batches (SpecStores) *)

\* The tier a well-formed label names (0 for any other key).
EntryTier(key) ==
    IF key \in WellFormedLabels
    THEN CHOOSE d \in Tiers : key \in {TierLabel(d), ToString(d)}
    ELSE 0

\* The fields that the entries of a batch addressed to tier d name.
PatchedFields(body, d) ==
    UNION {DOMAIN body[i].data.m :
             i \in {j \in DOMAIN body : /\ EntryTier(body[j].key) = d
                                        /\ body[j].data.kind = "map"}}

\* The fields the last operation was asked to set in tier d.
AskedFields(d) ==
    CASE last.op = "update_config" ->
            IF d = last.difficulty /\ last.config_data.kind = "map"
            THEN DOMAIN last.config_data.m ELSE {}
      [] last.op \in {"send", "send_dict"} -> PatchedFields(last.body, d)
      [] OTHER -> {}

\* Field f of tier d as the store held it before / holds it after the last
\* operation (GameConfigManager or server_default_values).
FieldBefore(d, f) ==
    IF last.op = "send_dict" THEN last.before[d][f]
    ELSE to_dict(last.before, d)[f]
FieldNow(d, f) ==
    IF last.op = "send_dict" THEN server_default_values[d][f]
    ELSE to_dict(configs, d)[f]

\* C12: an update is a sparse patch: every field of the target tier that the
\* patch does not name, and every field of every other tier, has the value
\* after the operation that it had before.
C12_AbsentFieldsUntouched ==
    last.op # "none" =>
        \A d \in Tiers : \A f \in Range(all_fields) \ AskedFields(d) :
            FieldNow(d, f) = FieldBefore(d, f)

\* An update of one tier with a partial patch has changed the store.
C12_PartialPatchApplied ==
    /\ last.op = "update_config"
    /\ last.difficulty \in Tiers
    /\ AskedFields(last.difficulty) # {}
    /\ AskedFields(last.difficulty) # Range(all_fields)
    /\ configs # last.before

WellFormedEntry(e) ==
    /\ EntryTier(e.key) # 0
    /\ e.data.kind = "map"
    /\ \A f \in DOMAIN e.data.m : Converts(e.data.m[f])

\* The store holds the values of entry e.
Merged(e) ==
    \A f \in DOMAIN e.data.m :
        Tenths(FieldNow(EntryTier(e.key), f)) = Tenths(e.data.m[f])

\* The last batch request ended in an exception.
RequestFailed == last.op \in {"send", "send_dict"} /\ last.raised # "none"

\* C13: a failing entry of a batch (malformed label, tier out of range, a
\* datum that is no mapping, a non-numeric value) does not keep the other
\* entries from being applied, wherever it sits, and the request does not
\* fail.
C13_FailingEntryBlocksNothing ==
    last.op \in {"send", "send_dict"} =>
        /\ ~RequestFailed
        /\ \A i \in DOMAIN last.body :
              WellFormedEntry(last.body[i]) => Merged(last.body[i])

\* The last batch was one JSON object under a well-formed label.
OneLabelledPatch ==
    /\ last.op \in {"send", "send_dict"}
    /\ Len(last.body) = 1
    /\ EntryTier(last.body[1].key) # 0
    /\ last.body[1].data.kind = "map"

\* C14: a batch key given as a bare integer and one given as a tier-prefixed
\* label are both accepted and the patch is dispatched to the integer tier
\* the label names: the store is what a direct update of that tier with the
\* patch makes of the store before, whichever form the label has.
C14_LabelFormsDispatchAlike ==
    OneLabelledPatch =>
        LET d == EntryTier(last.body[1].key)
            data == last.body[1].data
        IN  IF last.op = "send"
            THEN /\ configs = update_config(last.before, d, data).configs
                 /\ \A i \in DOMAIN last.errors :
                       last.errors[i].why \notin {"parse", "invalid"}
            ELSE /\ last.raised = "none"
                 /\ server_default_values =
                       [last.before EXCEPT ![d] = MergeItems(@, data.m)]

\* A one-entry batch under a prefixed label has changed the tier it names.
C14_PrefixedLabelApplied ==
    /\ OneLabelledPatch
    /\ StartsWithPrefix(last.body[1].key)
    /\ \E f \in DOMAIN last.body[1].data.m :
          FieldNow(EntryTier(last.body[1].key), f)
              # FieldBefore(EntryTier(last.body[1].key), f)

\* No update has been made yet: the store is as the process built it.
AtProcessStart == ops = 0 /\ version = 0

\* The sum of one weight group of a tier of server_default_values.
GroupSum(tier_values, fields) ==
    SumValues([f \in Range(fields) |-> tier_values[f].v], fields)

\* C22: at process start every tier 1..9 of the store has a primary weight
\* group that sums to exactly 10000 and a bonus weight group that sums to
\* exactly 10000.
C22_DefaultGroupsTotal ==
    AtProcessStart =>
        \A d \in Tiers :
            IF variant = "web_v2" THEN GroupsTotal(configs[d])
            ELSE /\ GroupSum(server_default_values[d], prize_fields) = 10000
                 /\ GroupSum(server_default_values[d], bonus_fields) = 10000

\* Every tier's lower bound is strictly below its upper bound.
BoundsOrdered(store) == \A d \in Tiers : store[d].eat_min < store[d].eat_max

\* C23: at process start every tier's stored lower bound is strictly less
\* than its stored upper bound, and an update reported as successful keeps
\* it so for every tier.
C23_BoundsOrdered ==
    /\ AtProcessStart =>
          IF variant = "web_v2" THEN BoundsOrdered(configs)
          ELSE \A d \in Tiers : server_default_values[d]["eat_min"].v
                                    < server_default_values[d]["eat_max"].v
    /\ (ReportedSuccessful /\ BoundsOrdered(last.before)) => BoundsOrdered(configs)

\* Tier d as the store held it before / holds it after the last operation.
TierBefore(d) == last.before[d]
TierNow(d) ==
    IF last.op = "send_dict" THEN server_default_values[d] ELSE configs[d]

\* C29: the tiers of the store are exactly 1..9 in every state, and an
\* update addressed to a tier key outside 1..9 creates no tier and changes
\* no stored value: update_config refuses it, and a batch changes only the
\* tiers that its keys name.
C29_TiersAreOneToNine ==
    /\ DOMAIN configs = Tiers
    /\ variant \in {"backend", "lightweight"} => DOMAIN server_default_values = Tiers
    /\ (last.op = "update_config" /\ last.difficulty \notin Tiers) =>
          /\ configs = last.before
          /\ last.ret = "False"
    /\ last.op \in {"send", "send_dict"} =>
          \A d \in Tiers :
              (\A i \in DOMAIN last.body : EntryTier(last.body[i].key) # d)
                  => TierNow(d) = TierBefore(d)

\* An update addressed to tier 10 has been made, after a batch or before.
C29_UpdateAddressedOutside ==
    /\ last.op = "update_config"
    /\ last.difficulty = 10
    /\ last.config_data.kind = "map"
    /\ ops = 2

\* The weight v is raw * 10000 / total truncated toward zero.
IsTruncatedScale(v, raw, total) ==
    v * total <= raw * 10000 /\ raw * 10000 < (v + 1) * total

\* One group of a tier of backend.py's defaults is its table scaled by
\* 10000 / total with truncation, the residual added to the last field.
NormalizedGroup(tier_values, dist, fields) ==
    LET total == SumValues(dist, fields)
        last_field == fields[Len(fields)]
        inner == {fields[i] : i \in 1..(Len(fields) - 1)}
        residual == 10000 - SumValues([f \in Range(fields) |->
                                          Trunc(dist[f] * 10000, total)], fields)
    IN  /\ \A f \in inner : IsTruncatedScale(tier_values[f].v, dist[f], total)
        /\ IsTruncatedScale(tier_values[last_field].v - residual,
                            dist[last_field], total)
        /\ GroupSum(tier_values, fields) = 10000
        /\ \A f \in Range(fields) : tier_values[f].v >= 0

\* C31: backend.py's default-table normalization scales every weight of a
\* group by 10000/total with truncation toward zero and adds the residual to
\* the last field of the group, so that for every tier each group sums to
\* exactly 10000 and no weight is negative.
C31_DefaultsNormalized ==
    (AtProcessStart /\ variant = "backend") =>
        \A d \in Tiers :
            /\ NormalizedGroup(server_default_values[d],
                               backend_prize_distributions[d], prize_fields)
            /\ NormalizedGroup(server_default_values[d],
                               backend_bonus_distributions[d], bonus_fields)

\* backend.py has just started, and tier 2's primary table (total 10240) was
\* scaled down with a residual of 5 added to its last field.
C31_ScaledWithResidual ==
    /\ AtProcessStart /\ variant = "backend"
    /\ SumValues(backend_prize_distributions[2], prize_fields) = 10240
    /\ server_default_values[2]["golden_pig"].v = 102
    /\ Trunc(backend_prize_distributions[2]["golden_pig"] * 10000, 10240) = 97

\* C33: the diagnostic pass and the store's own validation agree: for every
\* full tier configuration, AppSimulator.validate_config reports valid
\* exactly when GameConfigManager._validate_config returns True.
C33_ValidatorsAgree ==
    last.op = "validate" => (last.report.valid <=> last.ret)

\* C36: for a mapping batch handled by web_v2.py's /send, every entry is
\* accounted for exactly once: the request is answered with updated_count
\* and errors, and updated_count plus the number of errors equals the number
\* of entries of the batch.
C36_EveryEntryAccountedFor ==
    last.op = "send" =>
        /\ last.raised = "none"
        /\ last.updated_count + Len(last.errors) = Len(last.body)

\* The snapshot the running server would produce now.
SnapshotNow ==
    IF variant = "web_v2" THEN to_dict_all(configs)
    ELSE get_all_difficulties_data(server_default_values)

\* C37: the shape of a snapshot is fixed: after any sequence of updates,
\* patches with unknown field names included, the store still holds every
\* known field of every tier, and a snapshot has exactly the nine tier
\* labels, each mapping exactly the 27 known field names.
C37_SnapshotShapeFixed ==
    /\ variant # "web_v2" =>
          \A d \in Tiers : Range(all_fields) \subseteq DOMAIN server_default_values[d]
    /\ DOMAIN SnapshotNow = {TierLabel(d) : d \in Tiers}
    /\ Cardinality(DOMAIN SnapshotNow) = 9
    /\ \A label \in DOMAIN SnapshotNow :
          /\ DOMAIN SnapshotNow[label] = Range(all_fields)
          /\ Cardinality(DOMAIN SnapshotNow[label]) = 27

\* A batch with an unknown field name has been merged: backend.py's store
\* holds the unknown field for tier 1, next to the patch's known field.
C37_UnknownFieldMerged ==
    /\ variant = "backend"
    /\ last.op = "send_dict"
    /\ "unknown_field" \in DOMAIN last.body[1].data.m
    /\ "unknown_field" \in DOMAIN server_default_values[1]
    /\ server_default_values[1]["double_difficulty"] = IntV(30)

----------------------------------------------------------------------------
(* Properties of the correction pass (SpecCorrection) *)

\* All weights of a primary distribution are non-negative.
NonNegativeWeights(dist) == \A f \in Range(prize_fields) : dist[f] >= 0

----------------------------------------------------------------------------
(* Properties of snapshots handed out by the stores (SpecSnapshot) *)

\* C17: a snapshot obtained from the store is an independent copy: what it
\* shows stays what it showed when it was obtained whatever updates follow,
\* and assigning into it leaves the store as it was.
C17_SnapshotIsIndependent ==
    /\ (held # NoSnapshot /\ ~held.mutated) => Shows(held) = held.taken
    /\ last.op = "mutate_snapshot" =>
          /\ configs = last.before
          /\ server_default_values = last.values_before

----------------------------------------------------------------------------
(* Properties of the fan-out (SpecFanout) *)

\* The servers that hold a configuration store (web.py relays a message and
\* holds none).
ServesStore == variant \in {"backend", "web_v2", "lightweight"}

Ended(r) == rounds[r].pc \in {"done", "raised"}

\* C11: the data of the push message a /send request broadcasts is the full
\* snapshot of the store as it stands after that request's merge: all nine
\* tier labels, taken after the merge, and not the request body.
C11_PushCarriesSnapshot ==
    ServesStore =>
        \A r \in Rounds :
            rounds[r].payload.kind # "none" =>
                /\ rounds[r].payload.kind = "snapshot"
                /\ rounds[r].payload.ver = r
                /\ rounds[r].payload.labels = {TierLabel(d) : d \in Tiers}

\* C3: a broadcast round attempts delivery to exactly the sessions that were
\* in the live set when it started: it sends to none that joined later, and
\* when it has ended it has sent to every one of them.
C3_RoundSendsToStartMembers ==
    ServesStore =>
        \A r \in Rounds :
            /\ rounds[r].tried \subseteq rounds[r].live_at_start
            /\ Ended(r) => rounds[r].live_at_start \subseteq rounds[r].tried

\* C4: a session whose send failed in a broadcast round that has ended is
\* not in the live set when a later round starts, and that round does not
\* send to it.
C4_FailedSessionGoneNextRound ==
    ServesStore =>
        \A r \in Rounds :
            /\ rounds[r].live_at_start \cap rounds[r].failed_earlier = {}
            /\ rounds[r].tried \cap rounds[r].failed_earlier = {}

\* C5: when a session's handler removes it from the live set while a round
\* is sending, the round does not raise, and once it has ended every other
\* session that was live at its start has been sent the payload.
C5_LeaveDuringRoundHarmless ==
    \A r \in Rounds :
        rounds[r].left_during # {} =>
            /\ rounds[r].pc # "raised"
            /\ rounds[r].pc = "done" =>
                  (rounds[r].live_at_start \ rounds[r].left_during)
                      \subseteq rounds[r].tried

\* C9: a session that has connected has first of all been sent the snapshot
\* of the store, by its own handler (round 0) and not by a /send round.
C9_SnapshotOnConnect ==
    \A s \in Sessions :
        handler[s] # "none" =>
            /\ sent[s].round = 0
            /\ sent[s].payload.kind = "snapshot"

\* C10: removing a session that is no longer in the live set raises nothing,
\* neither in the session's handler nor in a round's cleanup loop.
C10_RemoveAbsentIsNoOp ==
    ServesStore =>
        /\ \A s \in Sessions : handler[s] # "raised"
        /\ \A r \in Rounds : rounds[r].exc # "KeyError"

C19_NoRaiseCountsSuccesses ==
    variant \in {"backend", "web_v2", "lightweight"} =>
        \A r \in Rounds :
            /\ rounds[r].exc # "KeyError"
            /\ rounds[r].pc = "done" =>
                  rounds[r].reported =
                     {Cardinality(rounds[r].tried \ rounds[r].failed)}

\* C21: once a session's transport has closed, its handler's wait ends and
\* the handler removes the session: the step in which the waiting handler
\* notices the close is enabled, whether or not a broadcast ever sends to
\* the session again.
C21_CloseEndsHandlerWait ==
    \A s \in Sessions :
        (transport[s] = "closed" /\ handler[s] = "receiving")
            => ENABLED HandlerDisconnect(s)

\* The snapshot send made to session s on connect failed.
InitialSendFailed(s) == sent[s].round = 0 /\ ~sent[s].ok

\* C26: a session whose initial snapshot send failed is removed from the
\* live set and is not a member a later broadcast tries to send to: no
\* round calls send_text on it.
C26_FailedOnConnectNeverTried ==
    \A s \in Sessions :
        InitialSendFailed(s) => \A r \in Rounds : s \notin rounds[r].tried

\* The store's state now, as a snapshot message would carry it.
CurrentSnapshot ==
    SnapshotData(IF variant = "web_v2" THEN to_dict_all(configs)
                 ELSE get_all_difficulties_data(server_default_values))

\* C27: the payload of a broadcast round is the store's complete state at
\* one instant between update batches: as long as no later batch has been
\* merged, the payload equals the store, tier by tier and field by field,
\* also when another batch is being broadcast at the same time.
C27_PayloadIsStoreAtAnInstant ==
    \A r \in Rounds :
        (rounds[r].payload.kind \in {"snapshot", "body"}
            /\ rounds[r].payload.ver = version)
        => /\ rounds[r].payload.labels = {TierLabel(d) : d \in Tiers}
           /\ DOMAIN rounds[r].payload.data = DOMAIN CurrentSnapshot
           /\ rounds[r].payload.data = CurrentSnapshot

\* C28: a push is triggered only by a successful update batch: a request
\* whose batch applied no tier entry causes no broadcast round, i.e. no
\* send to any session.
C28_NoPushWithoutAppliedEntry ==
    variant \in {"backend", "web_v2", "lightweight"} =>
        \A r \in Rounds :
            (rounds[r].pc \notin {"idle", "raised"} /\ rounds[r].applied = 0)
                => rounds[r].tried = {}

\* Session s got its initial snapshot before the batch of round r was
\* merged (the snapshot does not contain the batch), has been in the live
\* set ever since, and its peer is there and reading.
JoinedBeforeBatch(s, r) ==
    /\ sent[s].round = 0
    /\ sent[s].ok
    /\ sent[s].payload.ver < rounds[r].payload.ver
    /\ s \in active_connections
    /\ transport[s] = "open"

\* C35: no update is lost to a joining session: when the round of a batch
\* that changed the store has ended, every session that was added to the
\* live set before the batch was merged, and is still in it, either holds
\* the batch in its initial snapshot or has been sent the round's broadcast.
C35_NoUpdateLostToJoiningSession ==
    ServesStore =>
        \A r \in Rounds : \A s \in Sessions :
            (Ended(r) /\ rounds[r].applied > 0 /\ JoinedBeforeBatch(s, r))
                => s \in rounds[r].tried

----------------------------------------------------------------------------
(* Properties of the fan-out with stalled peers (SpecStall) *)

\* C20: the sends of a round run independently: while a send of the round
\* is stuck on a stalled session, every session that was live at the start
\* of the round and has not been sent to yet has a send task of its own
\* pending, which no other send holds back.
C20_StalledSendDelaysNoOne ==
    \A r \in Rounds :
        rounds[r].stuck # {} =>
            \A s \in rounds[r].live_at_start \ rounds[r].tried :
                /\ rounds[r].pc = "gathering"
                /\ s \in rounds[r].pending

====
